---- MODULE Spec2Model ----
(***************************************************************************)
(* A model of the wellness application: the posture and mood classifiers   *)
(* (client/src/lib), the CameraTools detection loop, and the task          *)
(* endpoints of the Express server with their Firestore collection.        *)
(*                                                                         *)
(* Each part has its own specification over its own variables; the         *)
(* variables of the other parts are held at their idle values.             *)
(*   SpecPosture  analyzePosture on one pose input, and threshold sweeps   *)
(*   SpecMood     classifyMood / analyzeMood / detectEmotion on one input  *)
(*   SpecRepeat   repeated calls of the classifiers                        *)
(*   SpecCamera   the CameraTools panel from its mount on, within one      *)
(*                second of the clock; the camera, once granted, stays     *)
(*                granted                                                  *)
(*                (with the browser's fairness, SpecCameraFair)            *)
(*   SpecHistory  the panel once started, with the clock running           *)
(*   SpecServer   the task endpoints over one Firestore collection         *)
(*   SpecLoader   the model loaders of lightweightFaceDetection.ts and      *)
(*                lightweightPoseDetection.ts and their callers; with the   *)
(*                browser's fairness, SpecLoaderFair                        *)
(*   SpecStatic   the production server's static files and its catch-all   *)
(*   SpecNotify   the task manager's reminder notifications                 *)
(***************************************************************************)
EXTENDS Integers, Sequences, FiniteSets, Bags, TLC

VARIABLES
    poses,        \* analyzePosture's argument: [defined, arr], arr a sequence of poses
    posture,      \* the PostureStatus analyzePosture returned, if it was called
    sweep,        \* the sweep of one measured quantity under way
    landmarks,    \* classifyMood's / analyzeMood's first argument
    blendshapes,  \* their optional second argument
    moodRes,      \* what the last call of classifyMood or analyzeMood returned
    detections,   \* what face-api's detector found in the frame
    emotion,      \* what detectEmotion returned for it
    cur,          \* the latest classifier call: its function, arguments and result
    ref,          \* an earlier call, remembered
    cam,          \* the CameraTools component: its state, timers, frames and passes
    dropped,      \* history: an entry was dropped since the history was last cleared
    tasks,        \* Firestore: the collection "tasks", document id to data
    nextDoc,      \* Firestore: the next automatic document id
    clock,        \* the server's clock
    inflight,     \* handlers between two awaits
    last,         \* the request whose handler stepped last, and its answer
    users,        \* Firestore: the collection "users", user id to profile
    response,     \* what that handler step sent, and the steps of it that failed
    modelsLoaded, \* lightweightFaceDetection.ts: the face models are loaded
    detector,     \* lightweightPoseDetection.ts: the pose detector, or "null"
    isInitializing, \* the flag of either module
    calls,        \* the call of initializeFaceAPI / initializeMoveNet each caller is in
    loads,        \* the network operations in flight
    failedNets,   \* the models of which a download has failed
    files,        \* index-prod.ts: the files in dist/public
    reply,        \* what the last GET that reached serveStatic was answered
    tm            \* TaskManager.tsx: the panel, the user's tasks, the notification timers

postureVars == <<poses, posture, sweep>>
moodVars == <<landmarks, blendshapes, moodRes, detections, emotion>>
repeatVars == <<cur, ref>>
vars == <<poses, posture, sweep, landmarks, blendshapes, moodRes, detections, emotion,
          cur, ref, cam, dropped, tasks, nextDoc, clock, inflight, last, users,
          response, modelsLoaded, detector, isInitializing, calls, loads, failedNets,
          files, reply, tm>>
serverVars == <<tasks, nextDoc, clock, inflight, last, users, response>>
cameraVars == <<cam, dropped>>
loaderVars == <<modelsLoaded, detector, isInitializing, calls, loads, failedNets>>
staticVars == <<files, reply>>
notifyVars == <<tm>>

(***************************************************************************)
(* Numbers.  Coordinates are pixels (integers here).  A midpoint (a+b)/2   *)
(* is kept doubled, so that every comparison is exact.                     *)
(***************************************************************************)
Abs(n) == IF n < 0 THEN -n ELSE n
Max2(a, b) == IF a > b THEN a ELSE b

\* Half-width of the window of sample values taken around each threshold.
Span == 2

TorsoMin == 150
ShoulderMax == 20
HeadMax == 30
FullScore == 100
SlouchPenalty == 30
LeanPenalty == 20
HeadPenalty == 25

(***************************************************************************)
(* lightweightPoseDetection.ts: analyzePosture                             *)
(***************************************************************************)
Undefined == [found |-> FALSE, x |-> 0, y |-> 0]

\* keypoints.find(kp => kp.name === name): the first match, or undefined
find(keypoints, name) ==
    LET hits == {i \in 1..Len(keypoints) : keypoints[i].name = name}
    IN IF hits = {} THEN Undefined
       ELSE LET i == CHOOSE j \in hits : \A k \in hits : j <= k
            IN [found |-> TRUE, x |-> keypoints[i].x, y |-> keypoints[i].y]

PostureResult(st, sc, is) ==
    [called |-> TRUE, threw |-> FALSE, status |-> st, score |-> sc, issues |-> is]
NotCalled ==
    [called |-> FALSE, threw |-> FALSE, status |-> "good", score |-> 0, issues |-> <<>>]
\* a TypeError escaping the function
Threw ==
    [called |-> TRUE, threw |-> TRUE, status |-> "good", score |-> 0, issues |-> <<>>]

some(issues, text) == \E i \in 1..Len(issues) : issues[i] = text

\* the guard of line 111, as a mutant would write it: the hips are not checked
insufficientNoHips(nose, leftShoulder, rightShoulder, leftHip, rightHip) ==
    ~nose.found \/ ~leftShoulder.found \/ ~rightShoulder.found

\* !nose || !leftShoulder || !rightShoulder || !leftHip || !rightHip
insufficient(nose, leftShoulder, rightShoulder, leftHip, rightHip) ==
    ~nose.found \/ ~leftShoulder.found \/ ~rightShoulder.found
        \/ ~leftHip.found \/ ~rightHip.found

\* 2 * torsoLength = 2 * |shoulderMidY - hipMidY|
torsoLength2(leftShoulder, rightShoulder, leftHip, rightHip) ==
    Abs((leftShoulder.y + rightShoulder.y) - (leftHip.y + rightHip.y))
shoulderDiff(leftShoulder, rightShoulder) == Abs(leftShoulder.y - rightShoulder.y)
\* 2 * headForward = 2 * |nose.x - shoulderMidX|
headForward2(nose, leftShoulder, rightShoulder) ==
    Abs(2 * nose.x - (leftShoulder.x + rightShoulder.x))

\* torsoLength < 150, as a mutant would write it: torsoLength <= 150
isSlouchingInclusive(leftShoulder, rightShoulder, leftHip, rightHip) ==
    torsoLength2(leftShoulder, rightShoulder, leftHip, rightHip) <= 2 * TorsoMin

\* torsoLength < 150
isSlouching(leftShoulder, rightShoulder, leftHip, rightHip) ==
    torsoLength2(leftShoulder, rightShoulder, leftHip, rightHip) < 2 * TorsoMin

\* lines 119-148: the issues found, in the order they are pushed, and the score
issuesOf(nose, leftShoulder, rightShoulder, leftHip, rightHip) ==
    (IF isSlouching(leftShoulder, rightShoulder, leftHip, rightHip)
        THEN <<"Slouching detected">> ELSE <<>>)
    \o (IF shoulderDiff(leftShoulder, rightShoulder) > ShoulderMax
        THEN (IF leftShoulder.y > rightShoulder.y
                 THEN <<"Leaning left">> ELSE <<"Leaning right">>)
        ELSE <<>>)
    \o (IF headForward2(nose, leftShoulder, rightShoulder) > 2 * HeadMax
        THEN <<"Forward head posture">> ELSE <<>>)

scoreOf(issues) ==
    FullScore
    - (IF some(issues, "Slouching detected") THEN SlouchPenalty ELSE 0)
    - (IF some(issues, "Leaning left") \/ some(issues, "Leaning right")
          THEN LeanPenalty ELSE 0)
    - (IF some(issues, "Forward head posture") THEN HeadPenalty ELSE 0)

\* the chain of lines 153-161 with the forward head tested before the leaning
statusOfHeadFirst(issues) ==
    IF some(issues, "Slouching detected") THEN "slouching"
    ELSE IF some(issues, "Forward head posture") THEN "forward_head"
    ELSE IF some(issues, "Leaning left") THEN "leaning_left"
    ELSE IF some(issues, "Leaning right") THEN "leaning_right"
    ELSE "good"

\* lines 150-161: the first fault in the fixed order
statusOf(issues) ==
    IF some(issues, "Slouching detected") THEN "slouching"
    ELSE IF some(issues, "Leaning left") THEN "leaning_left"
    ELSE IF some(issues, "Leaning right") THEN "leaning_right"
    ELSE IF some(issues, "Forward head posture") THEN "forward_head"
    ELSE "good"

analyzePosture(p) ==
    IF ~p.defined \/ Len(p.arr) = 0
    THEN PostureResult("good", 0, <<"No pose detected">>)
    ELSE LET keypoints == p.arr[1].keypoints
             nose == find(keypoints, "nose")
             leftShoulder == find(keypoints, "left_shoulder")
             rightShoulder == find(keypoints, "right_shoulder")
             leftHip == find(keypoints, "left_hip")
             rightHip == find(keypoints, "right_hip")
         IN IF insufficient(nose, leftShoulder, rightShoulder, leftHip, rightHip)
            THEN PostureResult("good", 0, <<"Insufficient keypoints detected">>)
            \* reading .y or .x of undefined is a TypeError
            ELSE IF \E k \in {nose, leftShoulder, rightShoulder, leftHip, rightHip} :
                        ~k.found
            THEN Threw
            ELSE LET issues == issuesOf(nose, leftShoulder, rightShoulder,
                                        leftHip, rightHip)
                 IN PostureResult(statusOf(issues), Max2(0, scoreOf(issues)),
                                  issues)

(***************************************************************************)
(* Pose inputs.  A pose is laid out from the three quantities the          *)
(* classifier measures: torso length t, shoulder height difference d (on   *)
(* the left or the right side) and the nose's horizontal offset h from the *)
(* shoulder midpoint (to the left or to the right).                        *)
(***************************************************************************)
Window(threshold) ==
    {0, 2 * threshold} \cup {v \in (threshold - Span)..(threshold + Span) : v >= 0}
TorsoVals == Window(TorsoMin)
DiffVals == Window(ShoulderMax)
HeadVals == Window(HeadMax)

KeypointNames == <<"nose", "left_eye", "left_shoulder", "right_shoulder",
                   "left_hip", "right_hip">>
Needed == {"nose", "left_shoulder", "right_shoulder", "left_hip", "right_hip"}

keypointAt(name, t, d, leanLeft, h, headLeft) ==
    LET ly == 100 + (IF leanLeft THEN d ELSE 0)
        ry == 100 + (IF leanLeft THEN 0 ELSE d)
    IN CASE name = "nose" ->
                [name |-> name, x |-> 300 + (IF headLeft THEN -h ELSE h), y |-> 40]
         [] name = "left_eye" -> [name |-> name, x |-> 310, y |-> 30]
         [] name = "left_shoulder" -> [name |-> name, x |-> 400, y |-> ly]
         [] name = "right_shoulder" -> [name |-> name, x |-> 200, y |-> ry]
         [] name = "left_hip" -> [name |-> name, x |-> 380, y |-> ly + t]
         [] OTHER -> [name |-> name, x |-> 220, y |-> ry + t]

RECURSIVE keypointsFrom(_, _, _, _, _, _, _)
keypointsFrom(i, present, t, d, leanLeft, h, headLeft) ==
    IF i > Len(KeypointNames) THEN <<>>
    ELSE (IF KeypointNames[i] \in present
             THEN <<keypointAt(KeypointNames[i], t, d, leanLeft, h, headLeft)>>
             ELSE <<>>)
         \o keypointsFrom(i + 1, present, t, d, leanLeft, h, headLeft)

mkPoses(present, t, d, leanLeft, h, headLeft) ==
    [defined |-> TRUE,
     arr |-> <<[keypoints |-> keypointsFrom(1, present, t, d, leanLeft, h, headLeft)]>>]

NullPoses == [defined |-> FALSE, arr |-> <<>>]
EmptyPoses == [defined |-> TRUE, arr |-> <<>>]
AllNames == Needed \cup {"left_eye"}

FullPoses ==
    {mkPoses(AllNames, t, d, ll, h, hl) :
        t \in TorsoVals, d \in DiffVals, ll \in BOOLEAN, h \in HeadVals, hl \in BOOLEAN}
PartialPoses ==
    {mkPoses(present, TorsoMin - 1, ShoulderMax + 1, TRUE, HeadMax + 1, FALSE) :
        present \in (SUBSET AllNames) \ {AllNames, Needed}}
PoseInputs == {NullPoses, EmptyPoses} \cup PartialPoses \cup FullPoses

\* the quantities of a pose that holds all five keypoints
kp(p, name) == find(p.arr[1].keypoints, name)
hasAll(p) ==
    /\ p.defined /\ Len(p.arr) > 0
    /\ \A n \in Needed : kp(p, n).found
torsoOf(p) ==
    torsoLength2(kp(p, "left_shoulder"), kp(p, "right_shoulder"),
                 kp(p, "left_hip"), kp(p, "right_hip")) \div 2
diffOf(p) == shoulderDiff(kp(p, "left_shoulder"), kp(p, "right_shoulder"))
headOf(p) ==
    headForward2(kp(p, "nose"), kp(p, "left_shoulder"), kp(p, "right_shoulder")) \div 2
leansLeft(p) == kp(p, "left_shoulder").y > kp(p, "right_shoulder").y
headsLeft(p) ==
    2 * kp(p, "nose").x < kp(p, "left_shoulder").x + kp(p, "right_shoulder").x

(***************************************************************************)
(* A sweep moves one quantity of the pose from the least to the greatest   *)
(* sample value, the other two held fixed, calls analyzePosture at every   *)
(* value and records where the status changed.                             *)
(***************************************************************************)
Quantities == {"torso", "diff", "head"}
ValsOf(q) == IF q = "torso" THEN TorsoVals ELSE IF q = "diff" THEN DiffVals ELSE HeadVals
Lo(q) == CHOOSE v \in ValsOf(q) : \A w \in ValsOf(q) : v <= w
Hi(q) == CHOOSE v \in ValsOf(q) : \A w \in ValsOf(q) : v >= w
NextVal(q, v) ==
    LET above == {w \in ValsOf(q) : w > v}
    IN CHOOSE w \in above : \A u \in above : w <= u
valueOf(p, q) ==
    IF q = "torso" THEN torsoOf(p) ELSE IF q = "diff" THEN diffOf(p) ELSE headOf(p)
\* the pose with quantity q set to v (on side `left`), the others as they are
withValue(p, q, v, left) ==
    mkPoses(AllNames,
            IF q = "torso" THEN v ELSE torsoOf(p),
            IF q = "diff" THEN v ELSE diffOf(p),
            IF q = "diff" THEN left ELSE leansLeft(p),
            IF q = "head" THEN v ELSE headOf(p),
            IF q = "head" THEN left ELSE headsLeft(p))

NoSweep == [q |-> "none", left |-> FALSE, flips |-> 0, at |-> {}]


(***************************************************************************)
(* faceDetection.ts: detectSmile, classifyMood, generateEncouragement,     *)
(* analyzeMood.  Landmark coordinates and blendshape scores are in         *)
(* hundredths (0.05 is 5, 0.3 is 30).  A landmark array is its length and  *)
(* the points at the indices the code reads; landmarks[i] is undefined     *)
(* from the length on.                                                     *)
(***************************************************************************)
FullMesh == 468
MinLandmarks == 10
BrowLandmarks == 300
ReadIndices == {1, 13, 14, 61, 70, 152, 291, 300}

at(l, i) ==
    IF i < l.length
    THEN [found |-> TRUE, x |-> l.pts[i].x, y |-> l.pts[i].y]
    ELSE Undefined

Sq(n) == n * n

\* lines 75-113
detectSmile(l) ==
    IF ~l.defined \/ l.length < FullMesh THEN FALSE
    ELSE LET leftMouthCorner == at(l, 61)
             rightMouthCorner == at(l, 291)
             upperLipCenter == at(l, 13)
             lowerLipCenter == at(l, 14)
             noseTip == at(l, 1)
             \* the squares of mouthWidth and mouthHeight
             width2 == Sq(rightMouthCorner.x - leftMouthCorner.x)
                       + Sq(rightMouthCorner.y - leftMouthCorner.y)
             height2 == Sq(upperLipCenter.x - lowerLipCenter.x)
                        + Sq(upperLipCenter.y - lowerLipCenter.y)
             \* widthToHeightRatio > 3.5; x/0 is Infinity and 0/0 is NaN
             wide == IF height2 = 0 THEN width2 > 0 ELSE 4 * width2 > 49 * height2
             \* mouthCornerElevation > 0.05, doubled
             raised == 2 * noseTip.y - (leftMouthCorner.y + rightMouthCorner.y) > 10
         IN wide /\ raised

\* the loop of lines 128-137 from shape i on, with its early exit
RECURSIVE scanShapes(_, _, _, _)
scanShapes(shapes, i, smileScore, frownScore) ==
    IF i > Len(shapes) THEN [smile |-> smileScore, frown |-> frownScore]
    ELSE LET shape == shapes[i]
             s == IF shape.categoryName = "mouthSmile" THEN shape.score ELSE smileScore
             f == IF shape.categoryName = "mouthFrown" THEN shape.score ELSE frownScore
         IN IF s > 0 /\ f > 0 THEN [smile |-> s, frown |-> f]
            ELSE scanShapes(shapes, i + 1, s, f)

\* lines 148-164: the eyebrow check, "" when it decides nothing
browMood(l) ==
    IF l.length < BrowLandmarks THEN ""
    ELSE LET leftEyebrow == at(l, 70)
             rightEyebrow == at(l, 300)
             noseTip == at(l, 1)
             chin == at(l, 152)
         IN IF ~(leftEyebrow.found /\ rightEyebrow.found /\ noseTip.found /\ chin.found)
            THEN ""
            ELSE LET eyebrowHeight2 == leftEyebrow.y + rightEyebrow.y
                     faceHeight == Abs(noseTip.y - chin.y)
                     \* 2 * (noseTip.y - eyebrowHeight)
                     rise2 == 2 * noseTip.y - eyebrowHeight2
                 IN IF faceHeight <= 0 THEN ""
                    \* eyebrowRatio < 0.3, then < 0.4
                    ELSE IF 10 * rise2 < 6 * faceHeight THEN "Stressed"
                    ELSE IF 10 * rise2 < 8 * faceHeight THEN "Sad"
                    ELSE ""

\* lines 115-167
classifyMood(l, b) ==
    IF ~l.defined \/ l.length < MinLandmarks THEN "Analyzing..."
    ELSE LET isSmiling == detectSmile(l)
             scores == IF b.defined /\ Len(b.arr) > 0
                       THEN scanShapes(b.arr[1].categories, 1, 0, 0)
                       ELSE [smile |-> 0, frown |-> 0]
         IN IF scores.smile > 30 THEN "Happy"
            ELSE IF scores.frown > 30 THEN "Sad"
            ELSE IF isSmiling THEN "Happy"
            ELSE IF browMood(l) # "" THEN browMood(l)
            ELSE "Neutral"

\* lines 170-200 (the messages abridged to their first words)
encouragements ==
    [Happy |-> <<"Amazing!", "You're glowing!", "Wonderful!", "Perfect!">>,
     Neutral |-> <<"Try giving us a smile!", "Come on, you can do it!",
                   "Let's see that smile!", "Smile for me!">>,
     Sad |-> <<"I know it might be hard", "Even a small smile",
               "Smiling releases serotonin", "Your smile matters!">>,
     Stressed |-> <<"Take a deep breath", "Relax those facial muscles",
                    "A smile can lower cortisol", "Let go of that tension">>,
     Analyzing |-> <<"Looking at your expression...", "Analyzing your mood...",
                     "Just a moment, reading your face...">>]

poolKey(mood) == IF mood = "Analyzing..." THEN "Analyzing" ELSE mood

\* Math.random() is draw / RandomSteps, draw in 0..RandomSteps-1
RandomSteps == 4
Draws == 0..(RandomSteps - 1)

\* generateEncouragement reading the Neutral pool whatever the mood
generateEncouragementNeutral(mood, draw) ==
    LET messages == encouragements["Neutral"]
    IN messages[((draw * Len(messages)) \div RandomSteps) + 1]

\* lines 202-203: messages[Math.floor(Math.random() * messages.length)]
generateEncouragement(mood, draw) ==
    LET messages == IF poolKey(mood) \in DOMAIN encouragements
                    THEN encouragements[poolKey(mood)]
                    ELSE encouragements["Neutral"]
    IN messages[((draw * Len(messages)) \div RandomSteps) + 1]

MoodResult(fn, m, c, sm, e) ==
    [called |-> TRUE, fn |-> fn, threw |-> FALSE, mood |-> m, confidence |-> c,
     isSmiling |-> sm, encouragement |-> e]
MoodNotCalled ==
    [called |-> FALSE, fn |-> "", threw |-> FALSE, mood |-> "", confidence |-> 0,
     isSmiling |-> FALSE, encouragement |-> ""]
MoodThrew(fn) ==
    [called |-> TRUE, fn |-> fn, threw |-> TRUE, mood |-> "", confidence |-> 0,
     isSmiling |-> FALSE, encouragement |-> ""]

\* lines 206-219; landmarks.length of an absent array is a TypeError
analyzeMood(l, b, draw) ==
    LET mood == classifyMood(l, b)
        isSmiling == detectSmile(l)
    IN IF ~l.defined THEN MoodThrew("analyzeMood")
       ELSE MoodResult("analyzeMood", mood,
                       IF l.length >= FullMesh THEN 85 ELSE 50,
                       isSmiling, generateEncouragement(mood, draw))

(***************************************************************************)
(* lightweightFaceDetection.ts: detectEmotion, from the detector's result  *)
(* on.  Probabilities are levels 0..ProbLevels.                            *)
(***************************************************************************)
\* Object.entries(expressions), in face-api's order
ExpressionNames == <<"neutral", "happy", "sad", "angry", "fearful", "disgusted",
                     "surprised">>

\* lines 86-91 from entry i on
RECURSIVE maxEntry(_, _, _, _)
maxEntry(expressions, i, maxExpression, maxProbability) ==
    IF i > Len(ExpressionNames)
    THEN [expression |-> maxExpression, probability |-> maxProbability]
    ELSE IF expressions[ExpressionNames[i]] > maxProbability
    THEN maxEntry(expressions, i + 1, ExpressionNames[i],
                  expressions[ExpressionNames[i]])
    ELSE maxEntry(expressions, i + 1, maxExpression, maxProbability)

\* lines 94-102
emotionMap ==
    [happy |-> "Happy", sad |-> "Sad", angry |-> "Angry", neutral |-> "Neutral",
     surprised |-> "Surprised", disgusted |-> "Stressed", fearful |-> "Stressed"]

EmotionNull == [called |-> TRUE, isNull |-> TRUE, expression |-> "", probability |-> 0]
EmotionNotCalled ==
    [called |-> FALSE, isNull |-> TRUE, expression |-> "", probability |-> 0]

\* lines 77-107
detectEmotion(d) ==
    IF ~d.found THEN EmotionNull
    ELSE LET m == maxEntry(d.expressions, 1, "neutral", d.expressions["neutral"])
         IN [called |-> TRUE, isNull |-> FALSE,
             expression |-> IF m.expression \in DOMAIN emotionMap
                            THEN emotionMap[m.expression] ELSE "Neutral",
             probability |-> m.probability]

(***************************************************************************)
(* CameraTools.tsx.  `cam` holds the component's state (useState) and what *)
(* the browser holds for it: the pending timeouts, the requested animation *)
(* frames and the detection passes awaiting a detector.  Every callback    *)
(* carries the values of the render that created it (its closure): of      *)
(* these the callbacks read isAnalyzing and activeTab.  A frame is         *)
(* `current` when animationFrameRef.current holds its id, that is, when it *)
(* is the frame requested last.  A handler and the effects that its state  *)
(* change triggers are one step.                                           *)
(***************************************************************************)
HistoryKeep == 19
MaxAttempts == 10
\* at most this many chains of frame callbacks, and pending timeouts, at a time
MaxLoops == 2
MaxTimers == 2
\* the clock's last second
MaxClock == 1

CamInit ==
    [isAnalyzing |-> FALSE, isModelLoaded |-> FALSE, cameraPermission |-> "prompt",
     activeTab |-> "mood", currentStatus |-> "Not active", history |-> <<>>,
     video |-> "none", frames |-> EmptyBag, timers |-> EmptyBag, passes |-> EmptyBag,
     now |-> 0, mounted |-> TRUE]

\* the values a render hands to the callbacks it creates
render(c) == [isAnalyzing |-> c.isAnalyzing, activeTab |-> c.activeTab]

\* animationFrameRef.current = requestAnimationFrame(analyze<fn>Frame)
requestAnimationFrame(c, fn, clo) ==
    LET earlier == {f \in BagToSet(c.frames) : f.current}
        stale == {[f EXCEPT !.current = FALSE] : f \in earlier}
    IN [c EXCEPT !.frames = ((@ (-) SetToBag(earlier)) (+) SetToBag(stale))
                            (+) SetToBag({[fn |-> fn, clo |-> clo, current |-> TRUE]})]

\* cancelAnimationFrame(animationFrameRef.current)
cancelAnimationFrame(c) ==
    [c EXCEPT !.frames = @ (-) SetToBag({f \in BagToSet(c.frames) : f.current})]

setTimeout(c, kind, clo, attempts, first) ==
    [c EXCEPT !.timers = @ (+) SetToBag({[kind |-> kind, clo |-> clo,
                                          attempts |-> attempts, first |-> first]})]

\* lines 431-436
stopAnalysis(c) == cancelAnimationFrame([c EXCEPT !.isAnalyzing = FALSE])

\* lines 393-429, called from a render where isModelLoaded holds (the button is
\* disabled and no auto-start is armed otherwise); React drops the state updates
\* of a component that is no longer mounted
startAnalysis(c, clo) ==
    IF c.video = "none"
    THEN (IF c.mounted THEN [c EXCEPT !.currentStatus = "Webcam not ready"] ELSE c)
    ELSE setTimeout([c EXCEPT !.isAnalyzing = TRUE, !.history = <<>>,
                              !.currentStatus = "Starting detection..."],
                    "start", clo, 0, FALSE)

\* analyzeMoodFrame / analyzePostureFrame up to their first await (lines 97-123,
\* 178-204): clo.activeTab names the function, as every caller picks it by it
analyzeFrame(c, clo) ==
    IF c.video = "none" \/ ~clo.isAnalyzing
    THEN (IF clo.isAnalyzing THEN requestAnimationFrame(c, clo.activeTab, clo) ELSE c)
    ELSE IF c.video # "ready"
    THEN requestAnimationFrame(c, clo.activeTab, clo)
    ELSE [c EXCEPT !.passes = @ (+) SetToBag({[fn |-> clo.activeTab, clo |-> clo]})]

sliceLast(seq, n) ==
    IF Len(seq) <= n THEN seq ELSE SubSeq(seq, Len(seq) - n + 1, Len(seq))

appendHistoryKeepsAll(prev, entry) ==
    IF prev = <<>> \/ prev[Len(prev)].time # entry.time
                   \/ prev[Len(prev)].label # entry.label
    THEN prev \o <<entry>>
    ELSE prev

\* the updater of setHistory (lines 157-164, 372-379)
appendHistory(prev, entry) ==
    IF prev = <<>> \/ prev[Len(prev)].time # entry.time
                   \/ prev[Len(prev)].label # entry.label
    THEN sliceLast(prev, HistoryKeep) \o <<entry>>
    ELSE prev

\* analyzeMoodFrame from the detector's answer on (lines 130-170)
moodPassDone(c, clo, d) ==
    LET emotionResult == detectEmotion(d)
        shown == IF ~c.mounted THEN c
                 ELSE IF emotionResult.isNull
                 THEN [c EXCEPT !.currentStatus = "No face detected"]
                 ELSE [c EXCEPT !.currentStatus = emotionResult.expression,
                                !.history = appendHistory(@,
                                    [time |-> c.now, label |-> emotionResult.expression,
                                     type |-> "mood"])]
    IN requestAnimationFrame(shown, "mood", clo)

\* analyzePostureFrame from the detector's answer on (lines 211-385)
posturePassDone(c, clo, p) ==
    LET shown == IF ~c.mounted THEN c
                 ELSE IF p.defined /\ Len(p.arr) > 0
                 THEN LET postureStatus == analyzePosture(p)
                      IN [c EXCEPT !.currentStatus =
                                       IF Len(postureStatus.issues) > 0
                                       THEN postureStatus.status ELSE "Good posture",
                                   !.history = appendHistory(@,
                                       [time |-> c.now, label |-> postureStatus.status,
                                        type |-> "posture"])]
                 ELSE [c EXCEPT !.currentStatus = "No pose detected"]
    IN requestAnimationFrame(shown, "posture", clo)

\* isModelLoaded && cameraPermission === 'granted', as the render sees them
ready(c) == c.isModelLoaded /\ c.cameraPermission = "granted"

\* the effect on [activeTab] (lines 438-462), run after the render of state c
tabEffect(c) ==
    IF c.isAnalyzing /\ ready(c)
    THEN setTimeout(stopAnalysis(c), "restart", render(c), 0, FALSE)
    ELSE IF ~c.isAnalyzing /\ ready(c)
    THEN setTimeout(c, "checkTab", render(c), 0, FALSE)
    ELSE c

\* the effect on [isModelLoaded, cameraPermission, activeTab] (lines 477-502),
\* run after the render `seen`: the cleanup of its last run, then its body
autoStartEffect(c, seen) ==
    LET armed == {t \in BagToSet(c.timers) : t.kind = "checkAuto" /\ t.first}
        cleaned == [c EXCEPT !.timers = @ (-) SetToBag(armed)]
    IN IF ready(seen) /\ ~seen.isAnalyzing
       THEN setTimeout(cleaned, "checkAuto", render(seen), 0, TRUE)
       ELSE cleaned

(***************************************************************************)
(* server/routes.ts with shared/taskSchema.ts and the Firestore collection *)
(* "tasks".  A JavaScript value is a tag and a number: a string is the     *)
(* number of its characters, an ISO-8601 string and a Date and a Timestamp *)
(* are their instant, a boolean is 0 or 1.  An object gives every key of   *)
(* Keys a value, Absent marking a key the object does not have; a key can  *)
(* also be present with the value undefined.                               *)
(***************************************************************************)
TitleMax == 200
XpMin == 10
XpMax == 500
XpDefault == 50
DurationDefault == 30
NewTaskTitle == 8
\* document ids the collection hands out, the server clock's last instant, and
\* the handlers that may be between two awaits at a time
MaxDocs == 1
MaxTime == 1
MaxInflight == 1

Str(n) == [t |-> "string", v |-> n]
Num(n) == [t |-> "number", v |-> n]
Bool(b) == [t |-> "boolean", v |-> IF b THEN 1 ELSE 0]
Iso(n) == [t |-> "iso", v |-> n]
Date(n) == [t |-> "Date", v |-> n]
Timestamp(n) == [t |-> "Timestamp", v |-> n]
JsUndefined == [t |-> "undefined", v |-> 0]
Absent == [t |-> "absent", v |-> 0]
InvalidDate == Date(0 - 1)

Keys ==
    {"id", "userId", "title", "description", "scheduledTime", "duration", "xpReward",
     "completed", "notificationSent", "createdAt", "updatedAt", "category",
     "autoGenerated", "time", "date", "prompt", "message"}

\* the object literal with the fields of record r
Obj(r) == [k \in Keys |-> IF k \in DOMAIN r THEN r[k] ELSE Absent]
EmptyObj == [k \in Keys |-> Absent]

\* { ...a, ...b }
Merge(a, b) == [k \in Keys |-> IF b[k] # Absent THEN b[k] ELSE a[k]]

\* const { k, ...rest } = o
without(o, k) == [o EXCEPT ![k] = Absent]

\* o.k
prop(o, k) == IF o[k] = Absent THEN JsUndefined ELSE o[k]

missing(x) == x.t \in {"absent", "undefined"}
truthy(x) == ~missing(x) /\ ~(x.t \in {"string", "number", "boolean"} /\ x.v = 0)

\* x || d
orElse(x, d) == IF truthy(x) THEN x ELSE d

\* new Date(x)
newDate(x) ==
    IF x.t \in {"iso", "Date", "number", "boolean"} THEN Date(x.v) ELSE InvalidDate

\* what JSON.stringify and the body parser leave of a value
json(x) == IF x.t \in {"Date", "Timestamp"} THEN Iso(x.v)
           ELSE IF x.t = "undefined" THEN Absent ELSE x

optional(x, ok) == missing(x) \/ ok

\* z.object strips the keys it does not know
strip(o, known) == [k \in Keys |-> IF k \in known THEN o[k] ELSE Absent]

titleOk(x) == x.t = "string" /\ x.v >= 1 /\ x.v <= TitleMax
dateOk(x) == x.t = "Date" /\ x.v >= 0
durationOk(x) == x.t = "number" /\ x.v > 0
xpOk(x) == x.t = "number" /\ x.v >= XpMin /\ x.v <= XpMax

\* insertTaskSchema.parse(o): whether it returns, and what
insertTaskSchema(o) ==
    [ok |-> /\ titleOk(o["title"])
            /\ optional(o["description"], o["description"].t = "string")
            /\ dateOk(o["scheduledTime"])
            /\ optional(o["duration"], durationOk(o["duration"]))
            /\ optional(o["xpReward"], xpOk(o["xpReward"])),
     data |-> [strip(o, {"title", "description", "scheduledTime", "duration", "xpReward"})
                  EXCEPT !["xpReward"] = IF missing(@) THEN Num(XpDefault) ELSE @]]

\* updateTaskSchema as z.object(...).passthrough() would parse: unknown keys kept
updateTaskSchemaPassthrough(o) ==
    [ok |-> /\ optional(o["title"], titleOk(o["title"]))
            /\ optional(o["description"], o["description"].t = "string")
            /\ optional(o["scheduledTime"], dateOk(o["scheduledTime"]))
            /\ optional(o["duration"], durationOk(o["duration"]))
            /\ optional(o["completed"], o["completed"].t = "boolean")
            /\ optional(o["xpReward"], xpOk(o["xpReward"])),
     data |-> o]

\* updateTaskSchema.parse(o)
updateTaskSchema(o) ==
    [ok |-> /\ optional(o["title"], titleOk(o["title"]))
            /\ optional(o["description"], o["description"].t = "string")
            /\ optional(o["scheduledTime"], dateOk(o["scheduledTime"]))
            /\ optional(o["duration"], durationOk(o["duration"]))
            /\ optional(o["completed"], o["completed"].t = "boolean")
            /\ optional(o["xpReward"], xpOk(o["xpReward"])),
     data |-> strip(o, {"title", "description", "scheduledTime", "duration",
                        "completed", "xpReward"})]

\* Firestore: no document under an id, and the data a write accepts
NoDoc == EmptyObj
DocIds == 1..MaxDocs
exists(coll, id) == coll[id] # NoDoc
storable(o) == \A k \in Keys : o[k] # JsUndefined

\* the task object of POST /api/tasks, /api/ai/parse-task and /api/chat
\* (lines 57-65, 247-255, 356-364)
newTask(userId, validatedData, now) ==
    Merge(Merge(Obj([userId |-> userId]), validatedData),
          Obj([scheduledTime |-> Timestamp(validatedData["scheduledTime"].v),
               completed |-> Bool(FALSE), notificationSent |-> Bool(FALSE),
               createdAt |-> Timestamp(now), updatedAt |-> Timestamp(now)]))

plannedTaskSpreadLast(userId, task, now) ==
    Merge(Obj([userId |-> userId, completed |-> Bool(FALSE),
               notificationSent |-> Bool(FALSE), autoGenerated |-> Bool(TRUE),
               scheduledTime |-> Timestamp(task["date"].v),
               createdAt |-> Timestamp(now), updatedAt |-> Timestamp(now)]),
          without(without(task, "date"), "time"))

\* the task object of POST /api/planner/generate (lines 562-575)
plannedTask(userId, task, now) ==
    Obj([userId |-> userId, title |-> prop(task, "title"),
         description |-> prop(task, "description"),
         scheduledTime |-> Timestamp(task["date"].v),
         duration |-> prop(task, "duration"), xpReward |-> prop(task, "xpReward"),
         category |-> prop(task, "category"),
         completed |-> Bool(FALSE), notificationSent |-> Bool(FALSE),
         autoGenerated |-> Bool(TRUE),
         createdAt |-> Timestamp(now), updatedAt |-> Timestamp(now)])

\* the object the AI endpoints hand to insertTaskSchema (lines 236-242, 347-353)
fromAi(parsedTask, scheduledTime, title) ==
    Obj([title |-> title,
         description |-> orElse(prop(parsedTask, "description"), Str(0)),
         scheduledTime |-> scheduledTime,
         duration |-> orElse(prop(parsedTask, "duration"), Num(DurationDefault)),
         xpReward |-> orElse(prop(parsedTask, "xpReward"), Num(XpDefault))])

\* the update of PUT /api/tasks/:id (lines 110-117)
updateData(validatedData, now) ==
    LET base == Merge(validatedData, Obj([updatedAt |-> Timestamp(now)]))
    IN IF truthy(validatedData["scheduledTime"])
       THEN [base EXCEPT !["scheduledTime"] = Timestamp(validatedData["scheduledTime"].v)]
       ELSE base

\* the body handleUpdateTask sends for the task as the list shows it with the
\* edits of the form applied (TaskManager.tsx 165-173, 538-575, 589)
clientEdit(id, stored, edits) ==
    LET editingTask == Merge([Obj([id |-> Str(id)]) EXCEPT
                                 !["userId"] = stored["userId"],
                                 !["title"] = stored["title"],
                                 !["description"] = stored["description"],
                                 !["scheduledTime"] = Date(stored["scheduledTime"].v),
                                 !["duration"] = stored["duration"],
                                 !["completed"] = stored["completed"],
                                 !["notificationSent"] = orElse(prop(stored, "notificationSent"),
                                                                Bool(FALSE)),
                                 !["xpReward"] = stored["xpReward"],
                                 !["createdAt"] = Date(stored["createdAt"].v),
                                 !["updatedAt"] = Date(stored["updatedAt"].v)],
                             edits)
        sent == [editingTask EXCEPT
                    !["scheduledTime"] = IF truthy(@) THEN Iso(newDate(@).v) ELSE JsUndefined]
    IN [k \in Keys |-> json(sent[k])]

\* updateDoc(doc(db, "tasks", id), data): whether it resolves, and the collection after
updateDocUpsert(coll, id, data) ==
    [ok |-> storable(data), coll |-> [coll EXCEPT ![id] = Merge(@, data)]]

updateDoc(coll, id, data) ==
    [ok |-> exists(coll, id) /\ storable(data),
     coll |-> [coll EXCEPT ![id] = Merge(@, data)]]

\* the people who sign in, and the collection "users": no profile under an id,
\* and the profile the onboarding form writes (UserOnboarding.tsx 45-58)
User1 == Str(1)
User2 == Str(2)
UserIds == {User1, User2}
NoProfile == [onboardingCompleted |-> FALSE, xp |-> 0, level |-> 0, tasksCompleted |-> 0]
onboarded(profile) ==
    [profile EXCEPT !.onboardingCompleted = TRUE, !.xp = 0, !.level = 1,
                    !.tasksCompleted = 0]

\* the request whose handler stepped last, and what it was answered
NoRequest == [op |-> "", id |-> 0, body |-> EmptyObj, existed |-> FALSE, status |-> 0]
answer(op, id, body, existed, status) ==
    [op |-> op, id |-> id, body |-> body, existed |-> existed, status |-> status]

\* what a handler step sent: the number of responses, whether the JSON sent has
\* an error field, and the steps that threw or were rejected in it: "input"
\* (validation of the request), "database" (a Firestore write), "context" (the
\* read of the user's profile), "ai" (the call of the AI), "output" (parsing and
\* validation of the AI's answer)
NoResponse == [sent |-> 0, error |-> FALSE, failed |-> {}]
\* res.json(...) of a success
sentJson(failed) == [sent |-> 1, error |-> FALSE, failed |-> failed]
\* res.status(...).json({ error: ... })
sentError(failed) == [sent |-> 1, error |-> TRUE, failed |-> failed]
\* the handler goes on to its next await
goesOn(failed) == [sent |-> 0, error |-> FALSE, failed |-> failed]

\* a handler between two awaits
awaiting(op, id, body, snap, plan) ==
    [op |-> op, id |-> id, body |-> body, snap |-> snap, plan |-> plan]

(***************************************************************************)
(* lightweightFaceDetection.ts and lightweightPoseDetection.ts: the model  *)
(* loaders.  Each module keeps a flag isInitializing and what it loaded     *)
(* (modelsLoaded, detector).  `calls` gives every caller the call of        *)
(* initializeFaceAPI or initializeMoveNet it is in: polling the flag,       *)
(* loading (at a CDN of MODEL_URLS, or at tf.ready / MoveNet / BlazePose),  *)
(* or returned with its result.  `loads` are the network operations in      *)
(* flight; one is `live` while the call that started it awaits it: when     *)
(* Promise.all rejects on the first failure, the other download of the      *)
(* pair goes on with nobody awaiting it.  `failedNets` are the models of    *)
(* which a download has failed.                                             *)
(***************************************************************************)
ModelUrls == 3
FaceNets == {"tinyFaceDetector", "faceExpressionNet"}
PoseNets == {"MoveNet", "BlazePose"}
\* the callers there are, and the network operations in flight at a time
MaxCallers == 2
MaxLoads == 3
Callers == 1..MaxCallers

NotCalling == [fn |-> "", pc |-> "idle", stage |-> "", result |-> ""]
inCall(fn, pc, stage) == [fn |-> fn, pc |-> pc, stage |-> stage, result |-> ""]
returned(fn, result) == [fn |-> fn, pc |-> "returned", stage |-> "", result |-> result]

\* the CDN tried after MODEL_URLS[url] (lines 27-31, 34)
UrlStages == <<"url1", "url2", "url3">>
urlOf(stage) == CHOOSE k \in 1..ModelUrls : UrlStages[k] = stage

load(net, src, by) == [net |-> net, src |-> src, by |-> by, live |-> TRUE]

\* Promise.all([tinyFaceDetector.loadFromUri(url), faceExpressionNet.loadFromUri(url)])
faceLoads(src, by) == SetToBag({load(net, src, by) : net \in FaceNets})

\* the downloads of caller `by` that its call no longer awaits
orphaned(ls, by) ==
    LET mine == {d \in BagToSet(ls) : d.by = by /\ d.live}
        rest == [d \in BagToSet(ls) \ mine |-> ls[d]]
    IN rest (+) SetToBag({[d EXCEPT !.live = FALSE] : d \in mine})

\* the operations in flight for model `net`
inFlight(ls, net) == {d \in BagToSet(ls) : d.net = net}
netCount(ls, net) == BagCardinality([d \in inFlight(ls, net) |-> ls[d]])

\* `modelsLoaded` / `detector` as the value a call returns
truth(b) == IF b THEN "true" ELSE "false"

(***************************************************************************)
(* server/index-prod.ts: serveStatic.  A request path is the sequence of   *)
(* the pieces of its text ("/", ".", and the names between them), so that  *)
(* startsWith and the match of the extension are computed on the text.     *)
(* `files` are the paths of the files in dist/public.  serveStatic's two   *)
(* handlers see the GET requests that no route of routes.ts has answered.  *)
(***************************************************************************)
IndexHtml == <<"/", "index", ".", "html">>
AssetExtensions ==
    {"js", "css", "png", "jpg", "gif", "svg", "ico", "json", "woff", "woff2", "ttf", "eot"}

\* what a build may put into dist/public beside index.html
BuildFiles ==
    {<<"/", "assets", "/", "app", ".", "js">>, <<"/", "logo", ".", "PNG">>,
     <<"/", "robots", ".", "txt">>}

\* the paths requested: pages of the single-page app, files of the build, files
\* of an earlier build, and paths under /api that no route answers
RequestPaths ==
    {<<"/">>, <<"/", "dashboard">>, <<"/", "tasks", "/", "today">>,
     <<"/", "apiary">>, <<"/", "api">>, <<"/", "api", "/", "unknown">>,
     <<"/", "assets", "/">>, <<"/", "assets", "/", "old", ".", "js">>,
     <<"/", "old", ".", "css">>, <<"/", "photo", ".", "JPG">>,
     <<"/", "sitemap", ".", "xml">>, <<"/", "release", ".", "2">>,
     IndexHtml} \cup BuildFiles

\* the characters of a piece, for the pieces a prefix can end inside of
chars(piece) ==
    IF piece = "apiary" THEN <<"a", "p", "i", "a", "r", "y">>
    ELSE IF piece = "api" THEN <<"a", "p", "i">>
    ELSE <<piece>>

RECURSIVE textOf(_)
textOf(path) == IF path = <<>> THEN <<>> ELSE chars(Head(path)) \o textOf(Tail(path))

\* String.prototype.startsWith
startsWith(path, prefix) ==
    /\ Len(textOf(path)) >= Len(textOf(prefix))
    /\ SubSeq(textOf(path), 1, Len(textOf(prefix))) = textOf(prefix)

toLowerCase(piece) ==
    IF piece = "PNG" THEN "png" ELSE IF piece = "JPG" THEN "jpg" ELSE piece

\* req.path.match(/\.(js|css|...|eot)$/i)
matchExtension(path) ==
    /\ Len(path) >= 2
    /\ path[Len(path) - 1] = "."
    /\ toLowerCase(path[Len(path)]) \in AssetExtensions

\* fs.existsSync under dist/public
existsSync(dir, path) == path \in dir

\* what a request was answered: the file sent, or the text; `existed` tells
\* whether dist/public held a file at the path when it was handled
NoReply == [path |-> <<>>, existed |-> FALSE, status |-> 0, file |-> <<>>, text |-> ""]
sends(path, existed, status, file, text) ==
    [path |-> path, existed |-> existed, status |-> status, file |-> file, text |-> text]

\* the catch-all without its test for asset paths
spaFallbackForAll(dir, path, isSent) ==
    IF startsWith(path, <<"/", "api">>)
    THEN sends(path, FALSE, 404, <<>>, "API route not found")
    ELSE IF ~existsSync(dir, IndexHtml)
    THEN sends(path, FALSE, 500, <<>>, "Build Error")
    ELSE IF isSent
    THEN sends(path, FALSE, 200, IndexHtml, "")
    ELSE sends(path, FALSE, 500, <<>>, "Error loading page")

\* app.get("*", ...) (lines 55-85); isSent: sendFile meets no error
spaFallback(dir, path, isSent) ==
    IF startsWith(path, <<"/", "api">>)
    THEN sends(path, FALSE, 404, <<>>, "API route not found")
    ELSE IF startsWith(path, <<"/", "assets", "/">>) \/ matchExtension(path)
    THEN sends(path, FALSE, 404, <<>>, "File not found")
    ELSE IF ~existsSync(dir, IndexHtml)
    THEN sends(path, FALSE, 500, <<>>, "Build Error")
    ELSE IF isSent
    THEN sends(path, FALSE, 200, IndexHtml, "")
    ELSE sends(path, FALSE, 500, <<>>, "Error loading page")

\* express.static(finalPath, { index: false }) (lines 47-51), then the catch-all
serve(dir, path, isSent) ==
    IF existsSync(dir, path)
    THEN sends(path, TRUE, 200, path, "")
    ELSE spaFallback(dir, path, isSent)

(***************************************************************************)
(* client/src/components/TaskManager.tsx with useNotifications.  `tm` is   *)
(* the panel of one signed-in user with what it talks to: the user's tasks *)
(* as the server stores them, the list the panel fetched last, the         *)
(* browser's pending notification timeouts, and the clock.  The clock      *)
(* counts in units of five minutes.  `shown` counts the notifications      *)
(* created per task and `late` holds the tasks for which one was created   *)
(* when the task was completed or deleted.  A handler with the fetch that  *)
(* ends it and the effect the new list triggers is one step.               *)
(***************************************************************************)
FiveMinutes == 1
\* the tasks one run creates, the clock's last instant, the scheduled times of
\* the tasks, and the notifications counted per task
MaxTasks == 2
MaxNow == 3
MaxShown == 3
TaskIds == 1..MaxTasks
ScheduledTimes == {2, 3}

NoTask == [state |-> "none", scheduledTime |-> 0, notificationSent |-> FALSE]
Unlisted == [listed |-> FALSE, scheduledTime |-> 0, completed |-> FALSE,
             notificationSent |-> FALSE]

TmInit ==
    [permission |-> "granted",
     server |-> [id \in TaskIds |-> NoTask],
     tasks |-> [id \in TaskIds |-> Unlisted],
     timers |-> EmptyBag,
     shown |-> [id \in TaskIds |-> 0],
     late |-> {},
     now |-> 0]

\* GET /api/tasks/:userId as fetchTasks stores it (routes.ts 12-41, lines 28-44)
fetchTasks(s) ==
    [s EXCEPT !.tasks =
        [id \in TaskIds |->
            IF s.server[id].state \in {"open", "completed"}
            THEN [listed |-> TRUE, scheduledTime |-> s.server[id].scheduledTime,
                  completed |-> s.server[id].state = "completed",
                  notificationSent |-> s.server[id].notificationSent]
            ELSE Unlisted]]

\* showNotification (useNotifications): new Notification(...)
showNotification(s, id) ==
    IF s.permission # "granted" THEN s
    ELSE [s EXCEPT !.shown[id] = @ + 1,
                   !.late = IF s.server[id].state # "open" THEN @ \cup {id} ELSE @]

\* scheduleNotification (useNotifications): at once when the time has passed,
\* by a timeout otherwise; `by` names the caller: only the effect keeps the
\* function that clears the timeout
scheduleNotification(s, id, scheduledTime, by) ==
    LET delay == scheduledTime - s.now
    IN IF delay <= 0
       THEN showNotification(s, id)
       ELSE [s EXCEPT !.timers = @ (+) SetToBag({[id |-> id, at |-> scheduledTime,
                                                  by |-> by]})]

\* the cleanup of the scheduling effect: its timeouts are cleared (lines 76-78)
effectCleanup(s) ==
    [s EXCEPT !.timers = @ (-) SetToBag({t \in BagToSet(s.timers) : t.by = "effect"})]

\* tasks.forEach of the scheduling effect (lines 56-74), from task i on
RECURSIVE scheduleEach(_, _, _)
scheduleEach(s, i, filtered) ==
    IF i > MaxTasks THEN s
    ELSE LET task == s.tasks[i]
             due == task.listed /\ (filtered => ~task.completed /\ ~task.notificationSent)
         IN scheduleEach(IF due
                         THEN scheduleNotification(s, i, task.scheduledTime - FiveMinutes,
                                                   "effect")
                         ELSE s,
                         i + 1, filtered)

\* the scheduling effect without its test of completed and notificationSent
schedulingEffectForAll(s) ==
    LET cleaned == effectCleanup(s)
    IN IF s.permission # "granted" \/ \A id \in TaskIds : ~s.tasks[id].listed
       THEN cleaned
       ELSE scheduleEach(cleaned, 1, FALSE)

\* the scheduling effect (lines 51-79), run when the list has changed: the
\* cleanup of its last run, then its body
schedulingEffect(s) ==
    LET cleaned == effectCleanup(s)
    IN IF s.permission # "granted" \/ \A id \in TaskIds : ~s.tasks[id].listed
       THEN cleaned
       ELSE scheduleEach(cleaned, 1, TRUE)

\* the next id the collection hands out
nextTask(s) ==
    IF \A id \in TaskIds : s.server[id].state # "none" THEN 0
    ELSE CHOOSE id \in TaskIds :
             /\ s.server[id].state = "none"
             /\ \A j \in TaskIds : j < id => s.server[j].state # "none"

\* handleCreateTask / handleAICreateTask from the server's answer on (lines
\* 135-150, 95-110): the task is stored, a notification is scheduled, the list
\* is fetched
createTask(s, scheduledTime, handler) ==
    LET id == nextTask(s)
        posted == [s EXCEPT !.server[id] = [state |-> "open",
                                            scheduledTime |-> scheduledTime,
                                            notificationSent |-> FALSE]]
        scheduled == IF posted.permission = "granted"
                     THEN scheduleNotification(posted, id, scheduledTime - FiveMinutes,
                                               handler)
                     ELSE posted
    IN schedulingEffect(fetchTasks(scheduled))

(***************************************************************************)
(* Mood inputs.                                                            *)
(***************************************************************************)
LengthVals == {0, MinLandmarks - 1, MinLandmarks, BrowLandmarks - 1, BrowLandmarks,
               BrowLandmarks + 1, FullMesh - 1, FullMesh, FullMesh + 10}

\* a face: nose tip at y = 50, the mouth corners `elev` above it and `width`
\* apart, the lips `height` apart, the brows `rise` above the nose, the chin
\* `face` below it
mkLandmarks(length, elev, width, height, rise, face) ==
    [defined |-> TRUE, length |-> length,
     pts |-> [i \in ReadIndices |->
                CASE i = 1 -> [x |-> 50, y |-> 50]
                  [] i = 13 -> [x |-> 50, y |-> 60]
                  [] i = 14 -> [x |-> 50, y |-> 60 + height]
                  [] i = 61 -> [x |-> 40, y |-> 50 - elev]
                  [] i = 291 -> [x |-> 40 + width, y |-> 50 - elev]
                  [] i = 70 -> [x |-> 40, y |-> 50 - rise]
                  [] i = 300 -> [x |-> 60, y |-> 50 - rise]
                  [] OTHER -> [x |-> 50, y |-> 50 + face]]]

NullLandmarks == [defined |-> FALSE, length |-> 0, pts |-> <<>>]

LandmarkInputs ==
    {NullLandmarks} \cup
    {mkLandmarks(n, e, w, h, r, f) :
        n \in LengthVals, e \in {5, 6}, w \in {0, 7, 8}, h \in {0, 2},
        r \in {5, 6, 7, 8}, f \in {0, 20}}

NoBlendshapes == [defined |-> FALSE, arr |-> <<>>]
mkBlendshapes(smile, frown) ==
    [defined |-> TRUE,
     arr |-> <<[categories |-> <<[categoryName |-> "browDownLeft", score |-> 10],
                                 [categoryName |-> "mouthSmile", score |-> smile],
                                 [categoryName |-> "mouthFrown", score |-> frown]>>]>>]
BlendshapeInputs ==
    {NoBlendshapes, [defined |-> TRUE, arr |-> <<>>]} \cup
    {mkBlendshapes(sf[1], sf[2]) : sf \in {<<0, 0>>, <<31, 0>>, <<30, 31>>, <<30, 30>>}}

\* the levels a probability takes
ProbLevels == 2
NoDetections == [found |-> FALSE, expressions |-> <<>>]
DetectionInputs ==
    {NoDetections} \cup
    {[found |-> TRUE, expressions |-> e] :
        e \in [{ExpressionNames[i] : i \in 1..Len(ExpressionNames)} -> 0..ProbLevels]}

(***************************************************************************)
(* The specifications.                                                     *)
(***************************************************************************)
IdleMood ==
    /\ landmarks = NullLandmarks /\ blendshapes = NoBlendshapes
    /\ moodRes = MoodNotCalled
    /\ detections = NoDetections /\ emotion = EmotionNotCalled

NoCall ==
    [fn |-> "", poses |-> NullPoses, landmarks |-> NullLandmarks,
     blendshapes |-> NoBlendshapes, posture |-> NotCalled, mood |-> MoodNotCalled]
IdleRepeat == cur = NoCall /\ ref = NoCall

IdlePosture == poses = NullPoses /\ posture = NotCalled /\ sweep = NoSweep

IdleCamera == cam = CamInit /\ dropped = FALSE

IdleLoader ==
    /\ modelsLoaded = FALSE /\ detector = "null"
    /\ isInitializing = [face |-> FALSE, pose |-> FALSE]
    /\ calls = [i \in Callers |-> NotCalling]
    /\ loads = EmptyBag /\ failedNets = {}

IdleStatic == files = {IndexHtml} /\ reply = NoReply

IdleNotify == tm = TmInit

IdleServer ==
    /\ tasks = [id \in DocIds |-> NoDoc] /\ nextDoc = 1 /\ clock = 0
    /\ inflight = EmptyBag /\ last = NoRequest
    /\ users = [u \in UserIds |-> NoProfile]
    /\ response = NoResponse

InitPosture ==
    /\ poses \in PoseInputs
    /\ posture = NotCalled
    /\ sweep = NoSweep
    /\ IdleMood /\ IdleRepeat /\ IdleCamera /\ IdleServer /\ IdleLoader /\ IdleStatic /\ IdleNotify

CallAnalyzePosture ==
    /\ ~posture.called
    /\ posture' = analyzePosture(poses)
    /\ UNCHANGED <<poses, sweep>>
    /\ UNCHANGED <<moodVars, repeatVars, cameraVars, serverVars, loaderVars, staticVars, notifyVars>>

StartSweep ==
    /\ posture.called /\ hasAll(poses) /\ sweep.q = "none"
    /\ \E q \in Quantities, left \in BOOLEAN :
          /\ q = "torso" => ~left
          /\ poses' = withValue(poses, q, Lo(q), left)
          /\ sweep' = [q |-> q, left |-> left, flips |-> 0, at |-> {}]
    /\ posture' = analyzePosture(poses')
    /\ UNCHANGED <<moodVars, repeatVars, cameraVars, serverVars, loaderVars, staticVars, notifyVars>>

SweepStep ==
    /\ sweep.q # "none"
    /\ valueOf(poses, sweep.q) < Hi(sweep.q)
    /\ LET v == valueOf(poses, sweep.q)
           w == NextVal(sweep.q, v)
       IN /\ poses' = withValue(poses, sweep.q, w, sweep.left)
          /\ posture' = analyzePosture(poses')
          /\ sweep' = IF posture'.status # posture.status
                         THEN [sweep EXCEPT !.flips = @ + 1, !.at = @ \cup {<<v, w>>}]
                         ELSE sweep
    /\ UNCHANGED <<moodVars, repeatVars, cameraVars, serverVars, loaderVars, staticVars, notifyVars>>

NextPosture == CallAnalyzePosture \/ StartSweep \/ SweepStep

SpecPosture == InitPosture /\ [][NextPosture]_vars

\* SpecMood: one input, drawn at the start, and the calls on it
InitMood ==
    /\ IdlePosture /\ IdleRepeat /\ IdleCamera /\ IdleServer /\ IdleLoader /\ IdleStatic /\ IdleNotify
    /\ moodRes = MoodNotCalled
    /\ emotion = EmotionNotCalled
    /\ \/ /\ landmarks \in LandmarkInputs
          /\ blendshapes \in BlendshapeInputs
          /\ detections = NoDetections
       \/ /\ landmarks = NullLandmarks
          /\ blendshapes = NoBlendshapes
          /\ detections \in DetectionInputs

CallClassifyMood ==
    /\ moodRes' = MoodResult("classifyMood", classifyMood(landmarks, blendshapes),
                             0, FALSE, "")
    /\ UNCHANGED <<landmarks, blendshapes, detections, emotion>>
    /\ UNCHANGED <<postureVars, repeatVars, cameraVars, serverVars, loaderVars, staticVars, notifyVars>>

CallAnalyzeMood ==
    /\ \E draw \in Draws : moodRes' = analyzeMood(landmarks, blendshapes, draw)
    /\ UNCHANGED <<landmarks, blendshapes, detections, emotion>>
    /\ UNCHANGED <<postureVars, repeatVars, cameraVars, serverVars, loaderVars, staticVars, notifyVars>>

CallDetectEmotion ==
    /\ ~emotion.called
    /\ emotion' = detectEmotion(detections)
    /\ UNCHANGED <<landmarks, blendshapes, moodRes, detections>>
    /\ UNCHANGED <<postureVars, repeatVars, cameraVars, serverVars, loaderVars, staticVars, notifyVars>>

NextMood == CallClassifyMood \/ CallAnalyzeMood \/ CallDetectEmotion

SpecMood == InitMood /\ [][NextMood]_vars

\* SpecRepeat: the classifiers called again and again, on inputs of any order
RepeatPoses ==
    {NullPoses, EmptyPoses,
     mkPoses(Needed \ {"left_hip"}, TorsoMin, ShoulderMax, TRUE, HeadMax, FALSE)}
    \cup {mkPoses(AllNames, t, d, TRUE, h, FALSE) :
            t \in {TorsoMin - 1, TorsoMin}, d \in {ShoulderMax, ShoulderMax + 1},
            h \in {HeadMax, HeadMax + 1}}
RepeatFaces ==
    {<<NullLandmarks, NoBlendshapes>>}
    \cup {<<mkLandmarks(n, 6, 8, 2, r, 20), b>> :
            n \in {MinLandmarks - 1, BrowLandmarks + 1, FullMesh}, r \in {5, 8},
            b \in {NoBlendshapes, mkBlendshapes(31, 0)}}

InitRepeat == IdlePosture /\ IdleMood /\ IdleRepeat /\ IdleCamera /\ IdleServer /\ IdleLoader /\ IdleStatic /\ IdleNotify

\* analyzePosture with `score` kept at module level, as a mutant would have it
RepeatAnalyzePostureSharedScore ==
    /\ \E p \in RepeatPoses :
          LET fresh == analyzePosture(p)
              left == IF cur.fn = "analyzePosture" /\ hasAll(cur.poses)
                      THEN cur.posture.score ELSE FullScore
              out == IF fresh.threw \/ ~hasAll(p) THEN fresh
                     ELSE [fresh EXCEPT !.score = Max2(0, left - (FullScore - @))]
          IN cur' = [NoCall EXCEPT !.fn = "analyzePosture", !.poses = p, !.posture = out]
    /\ UNCHANGED <<ref, postureVars, moodVars, cameraVars, serverVars, loaderVars, staticVars, notifyVars>>

RepeatAnalyzePosture ==
    /\ \E p \in RepeatPoses :
          cur' = [NoCall EXCEPT !.fn = "analyzePosture", !.poses = p,
                                !.posture = analyzePosture(p)]
    /\ UNCHANGED <<ref, postureVars, moodVars, cameraVars, serverVars, loaderVars, staticVars, notifyVars>>

RepeatClassifyMood ==
    /\ \E f \in RepeatFaces :
          cur' = [NoCall EXCEPT !.fn = "classifyMood", !.landmarks = f[1],
                                !.blendshapes = f[2],
                                !.mood = MoodResult("classifyMood",
                                                    classifyMood(f[1], f[2]),
                                                    0, FALSE, "")]
    /\ UNCHANGED <<ref, postureVars, moodVars, cameraVars, serverVars, loaderVars, staticVars, notifyVars>>

RepeatAnalyzeMood ==
    /\ \E f \in RepeatFaces, draw \in Draws :
          cur' = [NoCall EXCEPT !.fn = "analyzeMood", !.landmarks = f[1],
                                !.blendshapes = f[2],
                                !.mood = analyzeMood(f[1], f[2], draw)]
    /\ UNCHANGED <<ref, postureVars, moodVars, cameraVars, serverVars, loaderVars, staticVars, notifyVars>>

Remember ==
    /\ cur.fn # "" /\ ref # cur
    /\ ref' = cur
    /\ UNCHANGED <<cur, postureVars, moodVars, cameraVars, serverVars, loaderVars, staticVars, notifyVars>>

NextRepeat ==
    RepeatAnalyzePosture \/ RepeatClassifyMood \/ RepeatAnalyzeMood \/ Remember

SpecRepeat == InitRepeat /\ [][NextRepeat]_vars

(***************************************************************************)
(* The camera panel: user events, browser events, timers, frames, passes.  *)
(***************************************************************************)
\* what the camera shows the detectors
CamDetections ==
    {NoDetections,
     [found |-> TRUE,
      expressions |-> [neutral |-> 0, happy |-> 1, sad |-> 0, angry |-> 0,
                       fearful |-> 0, disgusted |-> 0, surprised |-> 0]]}
CamPoses ==
    {NullPoses, mkPoses(AllNames, TorsoMin - 1, 0, FALSE, 0, FALSE)}

capped(c) ==
    /\ BagCardinality(c.timers) <= MaxTimers
    /\ BagCardinality(c.frames) + BagCardinality(c.passes) <= MaxLoops

InitCamera ==
    /\ IdlePosture /\ IdleMood /\ IdleRepeat /\ IdleServer /\ IdleLoader /\ IdleStatic /\ IdleNotify
    /\ cam = CamInit /\ dropped = FALSE

\* the note kept beside the history
noted ==
    dropped' = IF cam'.history = <<>> THEN FALSE
               ELSE IF Len(cam.history) > HistoryKeep /\ cam'.history # cam.history THEN TRUE
               ELSE dropped
others == <<postureVars, moodVars, repeatVars, serverVars, loaderVars, staticVars, notifyVars>>

\* loadModels resolves with the pose model (lines 47-68), then the auto-start effect
ModelsLoaded ==
    /\ cam.mounted
    /\ ~cam.isModelLoaded
    /\ LET c == [cam EXCEPT !.isModelLoaded = TRUE]
       IN cam' = autoStartEffect(c, c)
    /\ capped(cam')
    /\ noted /\ UNCHANGED others

\* handleCameraPermission succeeds (lines 87-91): the Webcam element is rendered
GrantCamera ==
    /\ cam.mounted
    /\ cam.cameraPermission = "prompt"
    /\ LET c == [cam EXCEPT !.cameraPermission = "granted", !.video = "mounted"]
       IN cam' = autoStartEffect(c, c)
    /\ capped(cam')
    /\ noted /\ UNCHANGED others

\* handleCameraPermission fails or onUserMediaError (lines 93, 569-572)
CameraDenied ==
    /\ cam.mounted
    /\ cam.cameraPermission = "prompt"
    /\ LET c == [cam EXCEPT !.cameraPermission = "denied", !.video = "none"]
       IN cam' = autoStartEffect(c, c)
    /\ capped(cam')
    /\ noted /\ UNCHANGED others

\* onUserMedia (lines 554-568)
UserMedia ==
    /\ cam.mounted
    /\ cam.video = "mounted"
    /\ LET c == [cam EXCEPT !.video = "loading"]
       IN cam' = IF ready(cam) /\ ~cam.isAnalyzing
                 THEN setTimeout(c, "userMedia", render(cam), 0, FALSE) ELSE c
    /\ capped(cam')
    /\ noted /\ UNCHANGED others

\* the stream has delivered enough data (readyState HAVE_ENOUGH_DATA)
VideoReady ==
    /\ cam.mounted
    /\ cam.video = "loading"
    /\ cam' = [cam EXCEPT !.video = "ready"]
    /\ noted /\ UNCHANGED others

\* the start/stop button (line 651)
ClickStartStop ==
    /\ cam.mounted
    /\ cam.isModelLoaded /\ cam.cameraPermission = "granted"
    /\ cam' = IF cam.isAnalyzing THEN stopAnalysis(cam) ELSE startAnalysis(cam, render(cam))
    /\ capped(cam')
    /\ noted /\ UNCHANGED others

\* a tab button (lines 517, 527): the new render runs both effects on activeTab
SwitchTab ==
    /\ cam.mounted
    /\ LET c == [cam EXCEPT !.activeTab = IF @ = "mood" THEN "posture" ELSE "mood"]
       IN cam' = autoStartEffect(tabEffect(c), c)
    /\ capped(cam')
    /\ noted /\ UNCHANGED others

\* the timeout of startAnalysis (422-428) or of the tab effect (442-448)
TimerCallsFrame ==
    /\ \E t \in BagToSet(cam.timers) :
        /\ t.kind \in {"start", "restart"}
        /\ cam' = analyzeFrame([cam EXCEPT !.timers = @ (-) SetToBag({t})], t.clo)
    /\ capped(cam')
    /\ noted /\ UNCHANGED others

\* checkVideo of the tab effect (451-459) or of the auto-start effect (480-495)
TimerChecksVideo ==
    /\ \E t \in BagToSet(cam.timers) :
        /\ t.kind \in {"checkTab", "checkAuto"}
        /\ LET c == [cam EXCEPT !.timers = @ (-) SetToBag({t})]
           IN cam' = IF cam.video = "ready"
                     THEN startAnalysis(c, t.clo)
                     ELSE IF t.kind = "checkTab"
                     THEN setTimeout(c, "checkTab", t.clo, 0, FALSE)
                     ELSE IF t.attempts < MaxAttempts
                     THEN setTimeout(c, "checkAuto", t.clo, t.attempts + 1, FALSE)
                     ELSE c
    /\ capped(cam')
    /\ noted /\ UNCHANGED others

\* the timeout of onUserMedia (562-565)
TimerStartsAnalysis ==
    /\ \E t \in BagToSet(cam.timers) :
        /\ t.kind = "userMedia"
        /\ cam' = startAnalysis([cam EXCEPT !.timers = @ (-) SetToBag({t})], t.clo)
    /\ capped(cam')
    /\ noted /\ UNCHANGED others

\* the browser runs a requested animation frame
FrameFires ==
    /\ \E f \in BagToSet(cam.frames) :
        cam' = analyzeFrame([cam EXCEPT !.frames = @ (-) SetToBag({f})], f.clo)
    /\ noted /\ UNCHANGED others

MoodPassCompletes ==
    /\ \E p \in BagToSet(cam.passes), d \in CamDetections :
        /\ p.fn = "mood"
        /\ cam' = moodPassDone([cam EXCEPT !.passes = @ (-) SetToBag({p})], p.clo, d)
    /\ noted /\ UNCHANGED others

PosturePassCompletes ==
    /\ \E p \in BagToSet(cam.passes), q \in CamPoses :
        /\ p.fn = "posture"
        /\ cam' = posturePassDone([cam EXCEPT !.passes = @ (-) SetToBag({p})], p.clo, q)
    /\ noted /\ UNCHANGED others

\* the panel is unmounted: the cleanups of the effects run (lines 79-84, 500)
\* and the refs of the webcam and the canvas are cleared
Unmount ==
    /\ cam.mounted
    /\ LET armed == {t \in BagToSet(cam.timers) : t.kind = "checkAuto" /\ t.first}
       IN cam' = cancelAnimationFrame([cam EXCEPT !.mounted = FALSE, !.video = "none",
                                                  !.timers = @ (-) SetToBag(armed)])
    /\ noted /\ UNCHANGED others

NextCamera ==
    \/ ModelsLoaded \/ GrantCamera \/ CameraDenied \/ UserMedia \/ VideoReady
    \/ ClickStartStop \/ SwitchTab \/ Unmount
    \/ TimerCallsFrame \/ TimerChecksVideo \/ TimerStartsAnalysis
    \/ FrameFires \/ MoodPassCompletes \/ PosturePassCompletes

SpecCamera == InitCamera /\ [][NextCamera]_vars

\* the browser runs every timeout that is due, every requested animation frame
\* (the tab is visible), and every detector call settles
SpecCameraFair ==
    /\ SpecCamera
    /\ WF_vars(TimerCallsFrame) /\ WF_vars(TimerChecksVideo) /\ WF_vars(TimerStartsAnalysis)
    /\ WF_vars(FrameFires) /\ WF_vars(MoodPassCompletes) /\ WF_vars(PosturePassCompletes)

(***************************************************************************)
(* The history under the clock: the panel from the moment the models are   *)
(* loaded, the camera streams and analysis has been started once, on.      *)
(***************************************************************************)
CamStarted ==
    [CamInit EXCEPT !.isModelLoaded = TRUE, !.cameraPermission = "granted",
                    !.video = "ready", !.isAnalyzing = TRUE,
                    !.currentStatus = "Starting detection..."]

InitHistory ==
    /\ IdlePosture /\ IdleMood /\ IdleRepeat /\ IdleServer /\ IdleLoader /\ IdleStatic /\ IdleNotify
    /\ cam = CamStarted /\ dropped = FALSE

\* a second passes on the clock that stamps the entries
Tick ==
    /\ cam.now < MaxClock
    /\ cam' = [cam EXCEPT !.now = @ + 1]
    /\ noted /\ UNCHANGED others

NextHistory ==
    \/ ClickStartStop \/ SwitchTab \/ TimerCallsFrame \/ TimerChecksVideo
    \/ FrameFires \/ MoodPassCompletes \/ PosturePassCompletes \/ Tick

SpecHistory == InitHistory /\ [][NextHistory]_vars

(***************************************************************************)
(* The task endpoints.  A handler that awaits Firestore once is one step;  *)
(* POST /api/tasks/:id/complete (a read, then a write) and the planner (a  *)
(* write per planned task) are `inflight` between their steps.  `last` is  *)
(* the request whose handler took the latest step: its body, the document  *)
(* it addressed or created, whether that document existed before the step *)
(* and the status answered (0 while the handler has not answered);         *)
(* `response` is what that step sent and which of its steps failed.        *)
(* Firestore accepts every call on the tasks but a write of an undefined   *)
(* field value and an update of a document that does not exist; the read   *)
(* of a user's profile resolves or rejects.  No handler writes a profile:   *)
(* the onboarding form does.                                               *)
(***************************************************************************)
\* bodies of POST /api/tasks: the form's, one with fields the form never sends,
\* one without userId, one with an empty title, one with an unparsable time
PostBodies ==
    {Obj([userId |-> User1, title |-> Str(5), scheduledTime |-> Iso(1)]),
     Obj([userId |-> User2, title |-> Str(5), description |-> Str(3),
          scheduledTime |-> Iso(0), duration |-> Num(DurationDefault),
          xpReward |-> Num(XpMax), completed |-> Bool(TRUE),
          notificationSent |-> Bool(TRUE), createdAt |-> Iso(0)]),
     Obj([title |-> Str(5), scheduledTime |-> Iso(1)]),
     Obj([userId |-> User1, title |-> Str(0), scheduledTime |-> Iso(1)]),
     Obj([userId |-> User1, title |-> Str(5), scheduledTime |-> Str(4)])}

\* what the edit form changes
Edits ==
    {EmptyObj, Obj([title |-> Str(6)]), Obj([xpReward |-> Num(XpMin), duration |-> Num(5)])}

\* bodies of PUT /api/tasks/:id sent by other clients
PutBodies ==
    {Obj([title |-> Str(6)]), Obj([completed |-> Bool(TRUE)]),
     Obj([userId |-> User2, notificationSent |-> Bool(TRUE), createdAt |-> Iso(0),
          xpReward |-> Num(XpMin)]),
     Obj([xpReward |-> Num(XpMax + 1)])}

\* the JSON object in the AI's answer to a parse or a chat; EmptyObj: no usable answer
AiTasks ==
    {EmptyObj,
     Obj([title |-> Str(4), scheduledTime |-> Iso(1), xpReward |-> Num(XpMin),
          userId |-> User2, completed |-> Bool(TRUE), notificationSent |-> Bool(TRUE)]),
     Obj([title |-> Str(4), scheduledTime |-> Str(3)])}

\* the planned tasks in the AI's week plan, each with its day's date
Planned ==
    [full |-> Obj([title |-> Str(4), description |-> Str(9), time |-> Str(5),
                   date |-> Iso(1), duration |-> Num(15), category |-> Str(8),
                   xpReward |-> Num(XpDefault)]),
     hostile |-> Obj([title |-> Str(4), description |-> Str(9), time |-> Str(5),
                      date |-> Iso(1), duration |-> Num(15), category |-> Str(8),
                      xpReward |-> Num(XpMax + 1), userId |-> User2,
                      completed |-> Bool(TRUE), notificationSent |-> Bool(TRUE)]),
     bare |-> Obj([title |-> Str(4), time |-> Str(5), date |-> Iso(1)])]
WeekPlans ==
    {<<>>, <<Planned.hostile>>, <<Planned.full, Planned.bare>>}

\* bodies of the AI endpoints: with the user and the text, and without one of them
AiBodies(text) ==
    {Obj([userId |-> User1] @@ (text :> Str(7))), Obj([userId |-> User1]),
     Obj(text :> Str(7))}

InitServer ==
    /\ IdlePosture /\ IdleMood /\ IdleRepeat /\ IdleCamera /\ IdleServer /\ IdleLoader /\ IdleStatic /\ IdleNotify

idle == <<postureVars, moodVars, repeatVars, cameraVars, loaderVars, staticVars, notifyVars>>

\* addDoc(tasksRef, task), answered `status`
stored(op, body, task, status) ==
    /\ nextDoc <= MaxDocs
    /\ tasks' = [tasks EXCEPT ![nextDoc] = task]
    /\ nextDoc' = nextDoc + 1
    /\ last' = answer(op, nextDoc, body, FALSE, status)

\* an answer without a write
refused(op, id, body, existed, status) ==
    /\ last' = answer(op, id, body, existed, status)
    /\ UNCHANGED <<tasks, nextDoc>>

\* POST /api/tasks (lines 44-90)
PostTask ==
    /\ \E body \in PostBodies :
        LET userId == prop(body, "userId")
            taskData == without(body, "userId")
            parsed == insertTaskSchema(
                          [taskData EXCEPT !["scheduledTime"] =
                                               newDate(prop(taskData, "scheduledTime"))])
            task == newTask(userId, parsed.data, clock)
        IN IF parsed.ok /\ storable(task)
           THEN /\ stored("POST /api/tasks", body, task, 200)
                /\ response' = sentJson({})
           ELSE /\ refused("POST /api/tasks", 0, body, FALSE, 400)
                /\ response' = sentError(IF parsed.ok THEN {"database"} ELSE {"input"})
    /\ UNCHANGED <<clock, inflight, users, idle>>

\* PUT /api/tasks/:id (lines 101-126)
putTask(id, body) ==
    LET parsed == updateTaskSchema(body)
        written == updateDoc(tasks, id, updateData(parsed.data, clock))
    IN /\ IF parsed.ok /\ written.ok
          THEN /\ tasks' = written.coll
               /\ last' = answer("PUT /api/tasks/:id", id, body, TRUE, 200)
               /\ response' = sentJson({})
               /\ UNCHANGED nextDoc
          ELSE /\ refused("PUT /api/tasks/:id", id, body, exists(tasks, id), 400)
               /\ response' = sentError(IF parsed.ok THEN {"database"} ELSE {"input"})
       /\ UNCHANGED <<clock, inflight, users, idle>>

\* a PUT from another client
PutTask == \E id \in DocIds, body \in PutBodies : putTask(id, body)

\* the task manager's edit form is saved (TaskManager.tsx 165-183, 589)
EditTask ==
    \E id \in DocIds, edits \in Edits :
        /\ exists(tasks, id)
        /\ putTask(id, clientEdit(id, tasks[id], edits))

\* DELETE /api/tasks/:id (lines 129-140)
DeleteTask ==
    /\ \E id \in DocIds :
        /\ tasks' = [tasks EXCEPT ![id] = NoDoc]
        /\ last' = answer("DELETE /api/tasks/:id", id, EmptyObj, exists(tasks, id), 200)
    /\ response' = sentJson({})
    /\ UNCHANGED <<nextDoc, clock, inflight, users, idle>>

\* POST /api/tasks/:id/complete up to its getDoc (lines 143-152)
CompleteRead ==
    /\ \E id \in DocIds :
        IF exists(tasks, id)
        THEN /\ inflight' = inflight (+) SetToBag({awaiting("POST /api/tasks/:id/complete",
                                                           id, EmptyObj,
                                                           prop(tasks[id], "xpReward"), <<>>)})
             /\ BagCardinality(inflight') <= MaxInflight
             /\ last' = answer("POST /api/tasks/:id/complete", id, EmptyObj, TRUE, 0)
             /\ response' = goesOn({})
        ELSE /\ last' = answer("POST /api/tasks/:id/complete", id, EmptyObj, FALSE, 404)
             /\ response' = sentError({})
             /\ UNCHANGED inflight
    /\ UNCHANGED <<tasks, nextDoc, clock, users, idle>>

\* the update the completion writes (lines 154-157)
completion(now) == Obj([completed |-> Bool(TRUE), updatedAt |-> Timestamp(now)])

\* the completion without its try / catch: a rejected updateDoc ends the handler
CompleteWriteUncaught ==
    /\ \E h \in BagToSet(inflight) :
        /\ h.op = "POST /api/tasks/:id/complete"
        /\ inflight' = inflight (-) SetToBag({h})
        /\ LET written == updateDoc(tasks, h.id, completion(clock))
           IN /\ tasks' = IF written.ok THEN written.coll ELSE tasks
              /\ last' = answer(h.op, h.id, EmptyObj, exists(tasks, h.id),
                                IF written.ok THEN 200 ELSE 0)
              /\ response' = IF written.ok THEN sentJson({}) ELSE goesOn({"database"})
    /\ UNCHANGED <<nextDoc, clock, users, idle>>

\* POST /api/tasks/:id/complete from its updateDoc on (lines 154-168)
CompleteWrite ==
    /\ \E h \in BagToSet(inflight) :
        /\ h.op = "POST /api/tasks/:id/complete"
        /\ inflight' = inflight (-) SetToBag({h})
        /\ LET written == updateDoc(tasks, h.id, completion(clock))
           IN /\ tasks' = IF written.ok THEN written.coll ELSE tasks
              /\ last' = answer(h.op, h.id, EmptyObj, exists(tasks, h.id),
                                IF written.ok THEN 200 ELSE 500)
              /\ response' = IF written.ok THEN sentJson({}) ELSE sentError({"database"})
    /\ UNCHANGED <<nextDoc, clock, users, idle>>

\* POST /api/ai/parse-task (lines 172-271) with the AI's answer
ParseTask ==
    /\ \E body \in AiBodies("prompt"), parsedTask \in AiTasks :
        LET op == "POST /api/ai/parse-task"
            userId == prop(body, "userId")
            parsed == insertTaskSchema(
                          fromAi(parsedTask, newDate(prop(parsedTask, "scheduledTime")),
                                 prop(parsedTask, "title")))
            task == newTask(userId, parsed.data, clock)
        IN IF ~truthy(body["prompt"]) \/ ~truthy(userId)
           THEN /\ refused(op, 0, body, FALSE, 400)
                /\ response' = sentError({"input"})
           ELSE IF parsedTask # EmptyObj /\ parsed.ok /\ storable(task)
           THEN /\ stored(op, body, task, 200)
                /\ response' = sentJson({})
           ELSE /\ refused(op, 0, body, FALSE, 500)
                /\ response' = sentError(IF parsedTask = EmptyObj THEN {"ai"}
                                         ELSE IF parsed.ok THEN {"database"}
                                         ELSE {"output"})
    /\ UNCHANGED <<clock, inflight, users, idle>>

\* the read of the user's profile for the AI's context (lines 283-296, 457-473):
\* what failed in it, `context` telling whether getDoc resolved
profileRead(userId, context) == IF truthy(userId) /\ ~context THEN {"context"} ELSE {}

\* POST /api/chat (lines 274-433) with the AI's two answers
Chat ==
    /\ \E body \in AiBodies("message"), taskData \in AiTasks, replied \in BOOLEAN,
          context \in BOOLEAN :
        LET op == "POST /api/chat"
            userId == prop(body, "userId")
            scheduledTime == IF truthy(taskData["scheduledTime"])
                             THEN newDate(taskData["scheduledTime"])
                             ELSE Date(clock + 1)
            parsed == insertTaskSchema(
                          fromAi(taskData, scheduledTime,
                                 orElse(prop(taskData, "title"), Str(NewTaskTitle))))
            task == newTask(userId, parsed.data, clock)
            status == IF replied THEN 200 ELSE 500
            asked == taskData # EmptyObj /\ truthy(userId)
            created == asked /\ parsed.ok /\ storable(task)
            failed == profileRead(userId, context)
                      \cup (IF asked /\ ~parsed.ok THEN {"output"} ELSE {})
                      \cup (IF asked /\ parsed.ok /\ ~storable(task) THEN {"database"} ELSE {})
                      \cup (IF replied THEN {} ELSE {"ai"})
        IN /\ truthy(userId) \/ context
           /\ IF ~truthy(body["message"])
              THEN /\ refused(op, 0, body, FALSE, 400)
                   /\ response' = sentError({"input"})
              ELSE /\ IF created
                      THEN stored(op, body, task, status)
                      ELSE refused(op, 0, body, FALSE, status)
                   /\ response' = IF replied THEN sentJson(failed) ELSE sentError(failed)
    /\ UNCHANGED <<clock, inflight, users, idle>>

\* POST /api/planner/generate up to the AI's week plan (lines 436-550)
PlannerStart ==
    /\ \E body \in {Obj([userId |-> User1]), EmptyObj}, weekPlan \in WeekPlans,
          planned \in BOOLEAN, context \in BOOLEAN :
        LET op == "POST /api/planner/generate"
            userId == prop(body, "userId")
        IN /\ truthy(userId) \/ context
           /\ IF ~truthy(userId)
              THEN /\ refused(op, 0, body, FALSE, 400)
                   /\ response' = sentError({"input"})
                   /\ UNCHANGED inflight
              ELSE IF ~planned
              THEN /\ refused(op, 0, body, FALSE, 500)
                   /\ response' = sentError(profileRead(userId, context) \cup {"ai"})
                   /\ UNCHANGED inflight
              ELSE /\ refused(op, 0, body, FALSE, 0)
                   /\ response' = goesOn(profileRead(userId, context))
                   /\ inflight' = inflight (+) SetToBag({awaiting(op, 0, body, JsUndefined,
                                                                  weekPlan)})
                   /\ BagCardinality(inflight') <= MaxInflight
    /\ UNCHANGED <<clock, users, idle>>

\* one turn of the planner's loop (lines 555-583), or its answer (585-594); the
\* handler's id is the document it stored last (createdTasks, line 577)
PlannerStep ==
    /\ \E h \in BagToSet(inflight) :
        /\ h.op = "POST /api/planner/generate"
        /\ LET rest == inflight (-) SetToBag({h})
               task == plannedTask(prop(h.body, "userId"), Head(h.plan), clock)
               timed == prop(Head(h.plan), "time").t = "string"
           IN IF h.plan = <<>>
              THEN /\ refused(h.op, 0, h.body, FALSE, 200)
                   /\ response' = sentJson({})
                   /\ inflight' = rest
              ELSE IF ~timed \/ ~storable(task)
              THEN /\ refused(h.op, 0, h.body, FALSE, 500)
                   /\ response' = sentError(IF timed THEN {"database"} ELSE {"output"})
                   /\ inflight' = rest
              ELSE /\ stored(h.op, h.body, task, 0)
                   /\ response' = goesOn({})
                   /\ inflight' = rest (+) SetToBag({[h EXCEPT !.plan = Tail(@),
                                                              !.id = nextDoc]})
    /\ UNCHANGED <<clock, users, idle>>

\* Timestamp.now() moves on
ServerTick ==
    /\ clock < MaxTime
    /\ clock' = clock + 1
    /\ UNCHANGED <<tasks, nextDoc, inflight, last, users, response, idle>>

\* the person signed in at this browser submits the onboarding form
\* (UserOnboarding.tsx 41-64)
Onboard ==
    /\ users' = [users EXCEPT ![User1] = onboarded(@)]
    /\ UNCHANGED <<tasks, nextDoc, clock, inflight, last, response, idle>>

NextServer ==
    \/ Onboard \/ PostTask \/ PutTask \/ EditTask \/ DeleteTask \/ CompleteRead \/ CompleteWrite
    \/ ParseTask \/ Chat \/ PlannerStart \/ PlannerStep \/ ServerTick

SpecServer == InitServer /\ [][NextServer]_vars

(***************************************************************************)
(* The model loaders.  A caller is the mount effect's loadModels,          *)
(* startAnalysis, or a detection pass (CameraTools.tsx 53-54, 127, 208,    *)
(* 399-401; detectEmotion and detectPose call again while nothing is       *)
(* loaded): a caller whose call has returned may call again.               *)
(***************************************************************************)
InitLoader ==
    /\ IdlePosture /\ IdleMood /\ IdleRepeat /\ IdleCamera /\ IdleServer /\ IdleLoader /\ IdleStatic /\ IdleNotify

resting == <<postureVars, moodVars, repeatVars, cameraVars, serverVars, staticVars, notifyVars>>

free(i) == calls[i].pc \in {"idle", "returned"}

\* initializeFaceAPI without the test of isInitializing
InitializeFaceAPIUnguarded(i) ==
    /\ free(i)
    /\ IF modelsLoaded
       THEN /\ calls' = [calls EXCEPT ![i] = returned("initializeFaceAPI", "true")]
            /\ UNCHANGED <<isInitializing, loads>>
       ELSE /\ isInitializing' = [isInitializing EXCEPT !.face = TRUE]
            /\ calls' = [calls EXCEPT ![i] = inCall("initializeFaceAPI", "loading",
                                                   UrlStages[1])]
            /\ loads' = loads (+) faceLoads(UrlStages[1], i)
            /\ BagCardinality(loads') <= MaxLoads
    /\ UNCHANGED <<modelsLoaded, detector, failedNets, resting>>

\* initializeFaceAPI() up to its first await (lines 12-40)
InitializeFaceAPI(i) ==
    /\ free(i)
    /\ IF modelsLoaded
       THEN /\ calls' = [calls EXCEPT ![i] = returned("initializeFaceAPI", "true")]
            /\ UNCHANGED <<isInitializing, loads>>
       ELSE IF isInitializing.face
       THEN /\ calls' = [calls EXCEPT ![i] = inCall("initializeFaceAPI", "polling", "")]
            /\ UNCHANGED <<isInitializing, loads>>
       ELSE /\ isInitializing' = [isInitializing EXCEPT !.face = TRUE]
            /\ calls' = [calls EXCEPT ![i] = inCall("initializeFaceAPI", "loading",
                                                   UrlStages[1])]
            /\ loads' = loads (+) faceLoads(UrlStages[1], i)
            /\ BagCardinality(loads') <= MaxLoads
    /\ UNCHANGED <<modelsLoaded, detector, failedNets, resting>>

\* the poll of a waiting call finds the flag down (lines 16-19)
FacePollEnds(i) ==
    /\ calls[i].fn = "initializeFaceAPI" /\ calls[i].pc = "polling"
    /\ ~isInitializing.face
    /\ calls' = [calls EXCEPT ![i] = returned("initializeFaceAPI", truth(modelsLoaded))]
    /\ UNCHANGED <<modelsLoaded, detector, isInitializing, loads, failedNets, resting>>

\* a download nobody awaits any more ends
OrphanSettles(d) ==
    /\ ~d.live
    /\ loads' = loads (-) SetToBag({d})
    /\ UNCHANGED <<modelsLoaded, detector, isInitializing, calls, failedNets, resting>>

\* loadFromUri resolves (lines 37-43, 54-56)
FaceLoadResolves(d) ==
    /\ d.live /\ d.net \in FaceNets
    /\ loads' = loads (-) SetToBag({d})
    /\ IF \E e \in BagToSet(loads') : e.live /\ e.by = d.by
       THEN UNCHANGED <<modelsLoaded, isInitializing, calls>>
       ELSE /\ modelsLoaded' = TRUE
            /\ isInitializing' = [isInitializing EXCEPT !.face = FALSE]
            /\ calls' = [calls EXCEPT ![d.by] = returned("initializeFaceAPI", "true")]
    /\ UNCHANGED <<detector, failedNets, resting>>

\* loadFromUri rejects: the next CDN, or none is left (lines 44-52, 57-63)
FaceLoadRejects(d) ==
    /\ d.live /\ d.net \in FaceNets
    /\ failedNets' = failedNets \cup {d.net}
    /\ LET left == orphaned(loads (-) SetToBag({d}), d.by)
           url == urlOf(d.src)
       IN IF url < ModelUrls
          THEN /\ loads' = left (+) faceLoads(UrlStages[url + 1], d.by)
               /\ BagCardinality(loads') <= MaxLoads
               /\ calls' = [calls EXCEPT ![d.by] = inCall("initializeFaceAPI", "loading",
                                                          UrlStages[url + 1])]
               /\ UNCHANGED isInitializing
          ELSE /\ loads' = left
               /\ isInitializing' = [isInitializing EXCEPT !.face = FALSE]
               /\ calls' = [calls EXCEPT ![d.by] = returned("initializeFaceAPI", "false")]
    /\ UNCHANGED <<modelsLoaded, detector, resting>>

\* initializeMoveNet() up to its first await (lines 13-26)
InitializeMoveNet(i) ==
    /\ free(i)
    /\ IF detector # "null"
       THEN /\ calls' = [calls EXCEPT ![i] = returned("initializeMoveNet", detector)]
            /\ UNCHANGED <<isInitializing, loads>>
       ELSE IF isInitializing.pose
       THEN /\ calls' = [calls EXCEPT ![i] = inCall("initializeMoveNet", "polling", "")]
            /\ UNCHANGED <<isInitializing, loads>>
       ELSE /\ isInitializing' = [isInitializing EXCEPT !.pose = TRUE]
            /\ calls' = [calls EXCEPT ![i] = inCall("initializeMoveNet", "loading", "tf")]
            /\ loads' = loads (+) SetToBag({load("tf", "tf", i)})
            /\ BagCardinality(loads') <= MaxLoads
    /\ UNCHANGED <<modelsLoaded, detector, failedNets, resting>>

\* the poll of a waiting call finds the flag down (lines 16-19)
PosePollEnds(i) ==
    /\ calls[i].fn = "initializeMoveNet" /\ calls[i].pc = "polling"
    /\ ~isInitializing.pose
    /\ calls' = [calls EXCEPT ![i] = returned("initializeMoveNet", detector)]
    /\ UNCHANGED <<modelsLoaded, detector, isInitializing, loads, failedNets, resting>>

\* poseDetection.createDetector(net, ...) begins for the call of d.by
createDetector(d, net) ==
    /\ loads' = (loads (-) SetToBag({d})) (+) SetToBag({load(net, net, d.by)})
    /\ calls' = [calls EXCEPT ![d.by] = inCall("initializeMoveNet", "loading", net)]
    /\ UNCHANGED <<detector, isInitializing>>

\* tf.ready() or createDetector resolves (lines 26-41, 48-55)
PoseLoadResolves(d) ==
    /\ d.live /\ d.net \in PoseNets \cup {"tf"}
    /\ IF d.net = "tf"
       THEN createDetector(d, "MoveNet")
       ELSE /\ loads' = loads (-) SetToBag({d})
            /\ detector' = d.net
            /\ isInitializing' = [isInitializing EXCEPT !.pose = FALSE]
            /\ calls' = [calls EXCEPT ![d.by] = returned("initializeMoveNet", d.net)]
    /\ UNCHANGED <<modelsLoaded, failedNets, resting>>

\* tf.ready() or createDetector rejects (lines 42-61)
PoseLoadRejects(d) ==
    /\ d.live /\ d.net \in PoseNets \cup {"tf"}
    /\ failedNets' = failedNets \cup ({d.net} \cap PoseNets)
    /\ IF d.net # "BlazePose"
       THEN createDetector(d, "BlazePose")
       ELSE /\ loads' = loads (-) SetToBag({d})
            /\ isInitializing' = [isInitializing EXCEPT !.pose = FALSE]
            /\ calls' = [calls EXCEPT ![d.by] = returned("initializeMoveNet", "null")]
            /\ UNCHANGED detector
    /\ UNCHANGED <<modelsLoaded, resting>>

Calls == \E i \in Callers : InitializeFaceAPI(i) \/ InitializeMoveNet(i)
PollEnds == \E i \in Callers : FacePollEnds(i) \/ PosePollEnds(i)
\* the network operation d, in flight, ends
settles(d) ==
    /\ d \in BagToSet(loads)
    /\ \/ OrphanSettles(d)
       \/ FaceLoadResolves(d) \/ FaceLoadRejects(d)
       \/ PoseLoadResolves(d) \/ PoseLoadRejects(d)
Loads ==
    [net : FaceNets \cup PoseNets \cup {"tf"},
     src : {UrlStages[k] : k \in 1..ModelUrls} \cup PoseNets \cup {"tf"},
     by : Callers, live : BOOLEAN]
Settles == \E d \in Loads : settles(d)

NextLoader == Calls \/ PollEnds \/ Settles

SpecLoader == InitLoader /\ [][NextLoader]_vars

\* every load in flight resolves or rejects in the end, and a timer that is due fires
SpecLoaderFair ==
    /\ SpecLoader
    /\ \A d \in Loads : WF_vars(settles(d))
    /\ \A i \in Callers : WF_vars(FacePollEnds(i)) /\ WF_vars(PosePollEnds(i))

(***************************************************************************)
(* The production server's static part.  serveStatic returns only when     *)
(* dist/public holds index.html (lines 36-40), so the server starts with   *)
(* it; a later build may replace the directory's content while the server  *)
(* runs.                                                                   *)
(***************************************************************************)
InitStatic ==
    /\ IdlePosture /\ IdleMood /\ IdleRepeat /\ IdleCamera /\ IdleServer /\ IdleLoader
    /\ IdleNotify
    /\ \E built \in SUBSET BuildFiles : files = {IndexHtml} \cup built
    /\ reply = NoReply

unserved ==
    <<postureVars, moodVars, repeatVars, cameraVars, serverVars, loaderVars, notifyVars>>

\* a GET request that reaches serveStatic's handlers
Get ==
    /\ \E path \in RequestPaths, isSent \in BOOLEAN : reply' = serve(files, path, isSent)
    /\ UNCHANGED <<files, unserved>>

\* npm run build, or a cleanup of dist/public, while the server runs
Rebuild ==
    /\ \E built \in SUBSET (BuildFiles \cup {IndexHtml}) : files' = built
    /\ files' # files
    /\ UNCHANGED <<reply, unserved>>

NextStatic == Get \/ Rebuild

SpecStatic == InitStatic /\ [][NextStatic]_vars

(***************************************************************************)
(* The task manager of a user who has granted the notification permission. *)
(***************************************************************************)
InitNotify ==
    /\ IdlePosture /\ IdleMood /\ IdleRepeat /\ IdleCamera /\ IdleServer /\ IdleLoader
    /\ IdleStatic
    /\ tm = TmInit

unnotified ==
    <<postureVars, moodVars, repeatVars, cameraVars, serverVars, loaderVars, staticVars>>

counted(s) == \A id \in TaskIds : s.shown[id] <= MaxShown

\* the create form is submitted (lines 121-163)
HandleCreateTask ==
    /\ nextTask(tm) # 0
    /\ \E scheduledTime \in ScheduledTimes :
          tm' = createTask(tm, scheduledTime, "handleCreateTask")
    /\ counted(tm')
    /\ UNCHANGED unnotified

\* the AI form is submitted and the AI's task is stored (lines 81-119)
HandleAICreateTask ==
    /\ nextTask(tm) # 0
    /\ \E scheduledTime \in ScheduledTimes :
          tm' = createTask(tm, scheduledTime, "handleAICreateTask")
    /\ counted(tm')
    /\ UNCHANGED unnotified

\* the check mark of a listed task (lines 199-211, routes.ts 143-169)
HandleCompleteTask ==
    /\ \E id \in TaskIds :
        /\ tm.tasks[id].listed /\ tm.server[id].state \in {"open", "completed"}
        /\ tm' = schedulingEffect(fetchTasks([tm EXCEPT !.server[id].state = "completed"]))
    /\ counted(tm')
    /\ UNCHANGED unnotified

\* the bin of a listed task (lines 185-197, routes.ts 129-140)
HandleDeleteTask ==
    /\ \E id \in TaskIds :
        /\ tm.tasks[id].listed
        /\ tm' = schedulingEffect(fetchTasks([tm EXCEPT !.server[id].state = "deleted"]))
    /\ counted(tm')
    /\ UNCHANGED unnotified

\* the panel is left and opened again: the effect's cleanup on unmount, then the
\* fetch of the mount (lines 46-48) and the effect on its result
Remount ==
    /\ tm' = schedulingEffect(fetchTasks(tm))
    /\ counted(tm')
    /\ UNCHANGED unnotified

\* a timeout of scheduleNotification is due
NotificationTimer ==
    /\ \E t \in BagToSet(tm.timers) :
        /\ t.at <= tm.now
        /\ tm' = showNotification([tm EXCEPT !.timers = @ (-) SetToBag({t})], t.id)
    /\ counted(tm')
    /\ UNCHANGED unnotified

\* five minutes pass; the timeouts that are due run first
FiveMinutesPass ==
    /\ tm.now < MaxNow
    /\ \A t \in BagToSet(tm.timers) : t.at > tm.now
    /\ tm' = [tm EXCEPT !.now = @ + 1]
    /\ UNCHANGED unnotified

NextNotify ==
    \/ HandleCreateTask \/ HandleAICreateTask \/ HandleCompleteTask \/ HandleDeleteTask
    \/ Remount \/ NotificationTimer \/ FiveMinutesPass

SpecNotify == InitNotify /\ [][NextNotify]_vars

(***************************************************************************)
(* The claims.                                                             *)
(***************************************************************************)
sweepDone == sweep.q # "none" /\ valueOf(poses, sweep.q) = Hi(sweep.q)

\* the step from v to w passes the threshold of quantity q
crosses(q, v, w) ==
    CASE q = "torso" -> v < TorsoMin /\ w >= TorsoMin
      [] q = "diff" -> v <= ShoulderMax /\ w > ShoulderMax
      [] OTHER -> v <= HeadMax /\ w > HeadMax

\* a fault of higher priority than the one quantity q decides is present
masked(q) ==
    CASE q = "torso" -> FALSE
      [] q = "diff" -> torsoOf(poses) < TorsoMin
      [] OTHER -> torsoOf(poses) < TorsoMin \/ diffOf(poses) > ShoulderMax

\* C1 as stated: a completed sweep of any one quantity, the other two held
\* fixed, changed the status label exactly once, at the quantity's threshold.
C1_FlipsExactlyOnce ==
    sweepDone =>
        /\ sweep.flips = 1
        /\ \A pr \in sweep.at : crosses(sweep.q, pr[1], pr[2])

\* C1 as amended: during a sweep the status label changes at most once and only
\* on the step that passes the quantity's threshold; a completed sweep changed it
\* exactly once unless a fault of higher priority was present throughout, and
\* then it changed it never.
C1_FlipsAtThresholdUnlessMasked ==
    sweep.q # "none" =>
        /\ sweep.flips = Cardinality(sweep.at)
        /\ sweep.flips <= 1
        /\ \A pr \in sweep.at : crosses(sweep.q, pr[1], pr[2])
        /\ sweepDone => (sweep.flips = 1 <=> ~masked(sweep.q))

C1_Witness ==
    sweepDone /\ sweep.q = "head" /\ sweep.flips = 1 /\ posture.status = "forward_head"

C3_NeutralOnFewLandmarks ==
    (moodRes.called /\ moodRes.fn = "analyzeMood"
        /\ (~landmarks.defined \/ landmarks.length < FullMesh)) =>
        /\ ~moodRes.threw
        /\ moodRes.isSmiling = FALSE
        /\ ~blendshapes.defined => moodRes.mood \in {"Analyzing...", "Neutral"}

\* C4: analyzePosture, given absent or empty poses or a first pose that lacks one
\* of the five keypoints, does not throw and returns status 'good', score 0 and
\* exactly one issue, which names the failure.
C4_NeutralOnInsufficientPose ==
    (posture.called /\ ~hasAll(poses)) =>
        /\ ~posture.threw
        /\ posture.status = "good"
        /\ posture.score = 0
        /\ posture.issues =
              IF ~poses.defined \/ Len(poses.arr) = 0
              THEN <<"No pose detected">>
              ELSE <<"Insufficient keypoints detected">>

C4_Witness ==
    /\ posture.called /\ poses.defined /\ Len(poses.arr) > 0
    /\ kp(poses, "nose").found
    /\ kp(poses, "left_shoulder").found /\ kp(poses, "right_shoulder").found
    /\ ~kp(poses, "left_hip").found

MoodLabels == {"Happy", "Neutral", "Sad", "Stressed", "Analyzing..."}

\* C5 as stated: the label classifyMood returns and the expression detectEmotion
\* returns are each one of Happy, Neutral, Sad, Stressed, Analyzing.
C5_LabelsEnumerated ==
    /\ (moodRes.called /\ ~moodRes.threw) => moodRes.mood \in MoodLabels
    /\ (emotion.called /\ ~emotion.isNull) => emotion.expression \in MoodLabels

HistoryCap == HistoryKeep + 1

\* C6: the history never holds more than 20 entries; a step that appends to a
\* full history drops exactly its oldest entry and keeps the others in their
\* order, a step that appends to a shorter one keeps them all, and in both the
\* new entry, stamped with the current second, is last.
C6_HistoryRolls ==
    [][/\ Len(cam'.history) <= HistoryCap
       /\ (cam'.history # cam.history /\ cam'.history # <<>>) =>
            LET n == Len(cam.history)
                m == Len(cam'.history)
            IN /\ cam'.history[m].time = cam.now
               /\ IF n = HistoryCap
                  THEN m = HistoryCap
                       /\ \A i \in 1..(n - 1) : cam'.history[i] = cam.history[i + 1]
                  ELSE m = n + 1
                       /\ \A i \in 1..n : cam'.history[i] = cam.history[i]]_vars

\* a full history that has already dropped an entry
C6_Witness == dropped /\ Len(cam.history) = HistoryCap

\* the chains of frame callbacks: a requested frame, or a pass awaiting its detector
loops(c) == BagCardinality(c.frames) + BagCardinality(c.passes)

\* C7: at most one detection loop is alive at any time.
C7_OneLoopAlive == loops(cam) <= 1

CreateOps ==
    {"POST /api/tasks", "POST /api/ai/parse-task", "POST /api/chat",
     "POST /api/planner/generate"}

\* C8: a task that a creation endpoint has just stored has completed = false,
\* notificationSent = false and the userId of the request that created it.
C8_CreatedAsRequested ==
    (last.op \in CreateOps /\ last.id # 0) =>
        /\ exists(tasks, last.id)
        /\ tasks[last.id]["completed"] = Bool(FALSE)
        /\ tasks[last.id]["notificationSent"] = Bool(FALSE)
        /\ tasks[last.id]["userId"] = last.body["userId"]

\* a task stored from a body that asked for completed = true
C8_Witness ==
    /\ last.op = "POST /api/tasks" /\ last.id # 0
    /\ last.body["completed"] = Bool(TRUE) /\ last.body["notificationSent"] = Bool(TRUE)

\* a body as the task manager's edit form sends it
clientStyle(body) == body["id"] # Absent /\ body["scheduledTime"].t = "iso"

\* C9: a PUT as the task manager sends it, on a task that exists, is answered
\* with success and leaves the submitted title, description, scheduledTime,
\* duration and xpReward stored.
C9_ClientEditAccepted ==
    (last.op = "PUT /api/tasks/:id" /\ last.existed /\ clientStyle(last.body)) =>
        /\ last.status = 200
        /\ \A k \in {"title", "description", "duration", "xpReward"} :
               tasks[last.id][k] = last.body[k]
        /\ tasks[last.id]["scheduledTime"] = Timestamp(last.body["scheduledTime"].v)

CompleteOp == "POST /api/tasks/:id/complete"

\* C10: a completion that finds its task when it writes answers success, sets
\* completed to true and changes nothing else but updatedAt; one whose task was
\* deleted between its read and its write answers 500 and writes nothing; one
\* that finds no task when it reads answers 404 and writes nothing.
C10_CompleteOutcomes ==
    [][/\ \A h \in BagToSet(inflight) :
            (h.op = CompleteOp /\ inflight' = inflight (-) SetToBag({h})) =>
                \/ /\ last'.status = 200
                   /\ exists(tasks, h.id)
                   /\ tasks' = [tasks EXCEPT ![h.id] =
                                    [@ EXCEPT !["completed"] = Bool(TRUE),
                                              !["updatedAt"] = Timestamp(clock)]]
                \/ /\ last'.status = 500
                   /\ ~exists(tasks, h.id)
                   /\ tasks' = tasks
       /\ (last'.op = CompleteOp /\ last'.status = 404 /\ clock' = clock) =>
            ~exists(tasks, last'.id) /\ tasks' = tasks]_vars

\* a completion answered 500: its task was deleted after it had been read
C10_Witness == last.op = CompleteOp /\ last.status = 500 /\ ~exists(tasks, last.id)

\* C10 as stated: every completion ends with the task stored completed and a
\* success answer, or with no such task and a 404.
C10_CompletedOrNotFound ==
    (last.op = CompleteOp /\ last.status # 0) =>
        \/ last.status = 200 /\ tasks[last.id]["completed"] = Bool(TRUE)
        \/ last.status = 404 /\ ~exists(tasks, last.id)

\* C11: a completion answered with success raises the stored XP total of the
\* task's owner, who has a profile, by the task's xpReward.
C11_XpAwarded ==
    [][\A h \in BagToSet(inflight), u \in UserIds :
          (/\ h.op = CompleteOp /\ inflight' = inflight (-) SetToBag({h})
           /\ last'.status = 200
           /\ tasks[h.id]["userId"] = u /\ users[u].onboardingCompleted) =>
              users'[u].xp = users[u].xp + tasks[h.id]["xpReward"].v]_vars

\* the failures a handler catches and only logs: the read of the user's profile,
\* and in the chat everything about the task it detected (routes.ts 294-296,
\* 372-374, 471-473)
logged(op) ==
    IF op = "POST /api/chat" THEN {"context", "output", "database"} ELSE {"context"}

\* a handler that has not answered is still between two awaits
unanswered ==
    (last.op # "" /\ response.sent = 0) => \E h \in BagToSet(inflight) : h.op = last.op

startsLoad(net) ==
    \E d \in BagToSet(loads') :
        d.net = net /\ d.live /\ CopiesIn(d, loads') > CopiesIn(d, loads)

\* C13: once a download of a model has failed, no further download of that
\* model is started.
C13_NoRetry == [][\A net \in failedNets' : ~startsLoad(net)]_vars

waiting(i) == calls[i].pc \in {"polling", "loading"}

\* C20: every call of initializeFaceAPI and initializeMoveNet returns in the end.
C20_EveryCallReturns == \A i \in Callers : waiting(i) ~> calls[i].pc = "returned"

loading(fn) == {i \in Callers : calls[i].fn = fn /\ calls[i].pc = "loading"}

\* the calls that returned in this step
returning(fn) ==
    {i \in Callers : calls'[i] # calls[i] /\ calls'[i].fn = fn /\ calls'[i].pc = "returned"}

pool(mood) ==
    {encouragements[poolKey(mood)][k] : k \in 1..Len(encouragements[poolKey(mood)])}

\* C14: for every mood and every draw generateEncouragement returns a message
\* of that mood's pool, and the encouragement of a result of analyzeMood is of
\* the pool of the mood the result reports.
C14_EncouragementFromPool ==
    /\ \A mood \in MoodLabels, draw \in Draws :
           generateEncouragement(mood, draw) \in pool(mood)
    /\ (moodRes.called /\ moodRes.fn = "analyzeMood" /\ ~moodRes.threw) =>
           /\ moodRes.mood \in MoodLabels
           /\ moodRes.encouragement \in pool(moodRes.mood)

\* analyzeMood returned the last message of the three of Analyzing...
C14_Witness ==
    /\ moodRes.called /\ moodRes.fn = "analyzeMood" /\ ~moodRes.threw
    /\ moodRes.mood = "Analyzing..."
    /\ moodRes.encouragement = encouragements["Analyzing"][Len(encouragements["Analyzing"])]

isApi(path) == startsWith(path, <<"/", "api", "/">>) \/ path = <<"/", "api">>
answered == reply.status # 0
served(file) == reply.status = 200 /\ reply.file = file

passStarts == BagCardinality(cam'.passes) > BagCardinality(cam.passes)
passEnds == BagCardinality(cam'.passes) < BagCardinality(cam.passes)

\* C16: once stopAnalysis has been called (the analyzing flag is clear) or the
\* panel is unmounted, no detection pass starts, and a pass that was awaiting
\* its detector changes neither the status nor the history when it ends.
C16_NothingOnceStopped ==
    [][(~cam.isAnalyzing \/ ~cam.mounted) =>
           /\ ~passStarts
           /\ passEnds => /\ cam'.currentStatus = cam.currentStatus
                          /\ cam'.history = cam.history]_vars

starting == cam.mounted /\ cam.isAnalyzing /\ cam.currentStatus = "Starting detection..."

\* C17: after startAnalysis has set the analyzing flag and the status
\* 'Starting detection...', a detection pass eventually runs and the status
\* moves on (unless analysis is stopped or the panel unmounted before).
C17_StartLeadsToPass == starting ~> ~starting

\* the timeout t of the tab effect's restart runs in this step
fires(t) == t \in BagToSet(cam.timers) /\ cam'.timers = cam.timers (-) SetToBag({t})
loopsOf(c) == BagToSet(c.passes) \cup BagToSet(c.frames)

\* C18: when the tab has changed while analysis was running and the restart of
\* the tab effect has run, the analyzing flag is set, a detection loop runs for
\* the new tab, and none runs for the previous tab.
C18_RestartedForNewTab ==
    [][\A t \in BagToSet(cam.timers) :
          (t.kind = "restart" /\ fires(t) /\ cam.mounted /\ t.clo.activeTab = cam.activeTab) =>
              /\ cam'.isAnalyzing
              /\ \E l \in loopsOf(cam') : l.fn = cam.activeTab
              /\ \A l \in loopsOf(cam') : l.fn = cam.activeTab]_vars

\* C25: for a pose with all five keypoints, the status is the first detected
\* fault in the order slouching (torso shorter than 150), leaning_left,
\* leaning_right (shoulders more than 20 apart in height), forward_head (nose
\* more than 30 off the shoulder midpoint); it is 'good' exactly when the issues
\* list is empty; 'Leaning left' and 'Leaning right' never both appear.
C25_StatusIsFirstFault ==
    (posture.called /\ hasAll(poses)) =>
        LET slouches == torsoOf(poses) < TorsoMin
            leans == diffOf(poses) > ShoulderMax
            forward == headOf(poses) > HeadMax
        IN /\ ~posture.threw
           /\ posture.status =
                  IF slouches THEN "slouching"
                  ELSE IF leans /\ leansLeft(poses) THEN "leaning_left"
                  ELSE IF leans THEN "leaning_right"
                  ELSE IF forward THEN "forward_head"
                  ELSE "good"
           /\ posture.status = "good" <=> posture.issues = <<>>
           /\ ~(some(posture.issues, "Leaning left") /\ some(posture.issues, "Leaning right"))

\* leaning to the right with the head forward and the torso long enough
C25_Witness ==
    /\ posture.called /\ hasAll(poses)
    /\ torsoOf(poses) >= TorsoMin
    /\ diffOf(poses) > ShoulderMax /\ ~leansLeft(poses)
    /\ headOf(poses) > HeadMax
    /\ posture.status = "leaning_right"

\* C24: no request changes the userId, createdAt or notificationSent of a
\* stored task: a PUT or a completion leaves them as they were, whatever the
\* body carries (the other requests create or delete documents).
C24_OwnershipKept ==
    [][\A id \in DocIds :
          (exists(tasks, id) /\ exists(tasks', id)) =>
              \A k \in {"userId", "createdAt", "notificationSent"} :
                  tasks'[id][k] = tasks[id][k]]_vars

\* a PUT that carried another owner, notificationSent and createdAt was accepted
C24_Witness ==
    /\ last.op = "PUT /api/tasks/:id" /\ last.status = 200
    /\ last.body["userId"] = User2 /\ last.body["notificationSent"] = Bool(TRUE)
    /\ last.body["createdAt"] # Absent
    /\ tasks[last.id]["userId"] = User1

\* C23: every stored task has a title of 1 to 200 characters and an xpReward
\* (a number) between 10 and 500.
C23_StoredWithinBounds ==
    \A id \in DocIds :
        exists(tasks, id) =>
            /\ tasks[id]["title"].t = "string"
            /\ tasks[id]["title"].v >= 1 /\ tasks[id]["title"].v <= TitleMax
            /\ tasks[id]["xpReward"].t = "number"
            /\ tasks[id]["xpReward"].v >= XpMin /\ tasks[id]["xpReward"].v <= XpMax

PlannerOp == "POST /api/planner/generate"

\* C22: a creation request that is answered with an error status has stored no
\* task: not in the step that answers, and, for the planner, in none of the
\* turns of its loop before.
C22_ErrorStoresNothing ==
    [][(last'.op \in CreateOps /\ last'.status >= 400) =>
           /\ last'.id = 0
           /\ \A h \in BagToSet(inflight) :
                  (h.op = PlannerOp /\ inflight' = inflight (-) SetToBag({h})) => h.id = 0]_vars

\* C21: with the notification permission granted, at most one reminder
\* notification is created per task, and none for a task that is completed or
\* deleted.
C21_OneReminderPerTask ==
    tm.permission = "granted" =>
        /\ \A id \in TaskIds : tm.shown[id] <= 1
        /\ tm.late = {}

====
